---- MODULE Spec2Model ----
(***************************************************************************)
(* minidns: the recursive resolver / query tracker of src/src/dnsserver.rs *)
(* as a state machine.  One action per handler of the event loop           *)
(* (DnsServer::run): a datagram on the listening socket (server_recv), a   *)
(* datagram on the upstream socket (client_recv), the end of a loop        *)
(* iteration (the periodic sweep), and the passing of time.                *)
(*                                                                         *)
(* A datagram is modelled by the DnsPacket it carries; names are sequences *)
(* of labels (<<"example", "com">>), addresses are strings.  The wire      *)
(* codec (bufutil.rs, dnsutil.rs) is not part of this model: every packet  *)
(* the handlers build is handed to the socket as a DnsPacket.              *)
(***************************************************************************)
EXTENDS Integers, Sequences, FiniteSets, TLC

(***************************************************************************)
(* Program constants.                                                      *)
(***************************************************************************)
QUERY_TIMEOUT == 10
CLEAR_QUERIES_INTERVAL == 10
MAX_FORWARD_COUNT == 10
MAX_QUERIES_LEN == 4096
U16 == 65536
DNS_PORT == 53
C_2023_01_01 == 1672531200
C_DYNDNS_TIME_RANGE == 600
C_DYNDNS_PARAM_COUNT == 5
C_DYNDNS_MIN_LEN == 4 + 1 + 32 + 1 + 1 + 1 + 1 + 1 + 7
C_DNYDNS_MAGIC == "kdns"
MAX_JUMPS == 5
BufSize == 512
LabelLimit == 52    \* the 0x34 of write_qname

(***************************************************************************)
(* Bounds of the model.                                                    *)
(***************************************************************************)
MaxDatagrams == 3   \* datagrams handled, on both sockets together
MaxTime == 25       \* the clock stops this many seconds after StartTime
IdSpan == 1         \* upstream replies carry ids this close to curr_req_id
MaxSends == 13      \* upstream sends of the single chain of SpecChain
MaxFullDatagrams == 2  \* datagrams handled in a behaviour of SpecFull
ReadLen == 5        \* bytes of a datagram read by read_qname in SpecRead
HostsLen == 6       \* bytes of the hosts data of SpecHosts, at most
MaxDynDatagrams == 2   \* datagrams handled in a behaviour of SpecDyn
MaxErrDatagrams == 2   \* datagrams handled in a behaviour of SpecErr
MaxOnceDatagrams == 3  \* datagrams handled in a behaviour of SpecOnce
MaxSpoofDatagrams == 2 \* datagrams handled in a behaviour of SpecSpoof
MaxCalls == 4          \* calls of next in a behaviour of SpecCalls
CallsLen == 5          \* longest enumerated hosts data of SpecCalls

TickSteps == {5}

\* The second, by the unix clock, at which the model starts: 1000 s into 2023.
StartTime == C_2023_01_01 + 1000
SharedKey == "s3cr3t"

(***************************************************************************)
(* Option values: None, Some(x).                                           *)
(***************************************************************************)
None == << >>
Some(x) == << x >>

(***************************************************************************)
(* Addresses, names, questions, records of the model's universe.           *)
(***************************************************************************)
UNSPECIFIED == "0.0.0.0"
ParentDns == "198.41.0.4"
GlueIp == "199.43.135.53"
ChildIp == "192.0.2.10"
AnswerIp == "93.184.216.34"
AnswerIp2 == "93.184.216.35"
LocalIp == "10.0.0.1"

ExampleLocal == <<"example", "local">>
ExampleCom == <<"example", "com">>
GlueNs == <<"a", "iana-servers", "net">>
NoGlueNs == <<"ns", "nogl", "test">>

Client1 == [ip |-> "203.0.113.7", port |-> 40000]
Client2 == [ip |-> "203.0.113.8", port |-> 40001]

DnsQuestion(name, qtype) == [name |-> name, qtype |-> qtype]
RecA(domain, addr, ttl_) == [type |-> "A", domain |-> domain, addr |-> addr, ttl |-> ttl_]
RecNS(domain, host) == [type |-> "NS", domain |-> domain, host |-> host, ttl |-> 60]
RecCNAME(domain, host) == [type |-> "CNAME", domain |-> domain, host |-> host, ttl |-> 60]

(***************************************************************************)
(* The state.                                                              *)
(***************************************************************************)
VARIABLES
    queries,          \* DnsServer.queries: upstream id -> QueryData
    curr_req_id,      \* DnsServer.curr_req_id
    up_dns_addr,      \* DnsServer.up_dns_addr
    ttl,              \* DnsServer.ttl
    hosts,            \* DnsServer.hosts: name -> IPv4
    key,              \* DnsServer.key: the shared secret of dynamic updates
    now,              \* the clock read by now_of_unix
    next_clear_time,  \* run's next_clear_time
    woken,            \* a datagram was handled since the last end of iteration
    down_out,         \* datagrams the last step handed to socket.send_to
    up_out,           \* datagrams the last step handed to up_socket.send_to
    err,              \* the last handler's result: "ok" or its error
    last,             \* history: the last step and its input
    requests,         \* history: the client queries received so far
    nsent,            \* history: number of upstream sends so far
    chain,            \* history: the one upstream request awaiting its reply,
                      \* while the run resolves a single query step by step
    nd,               \* history: number of datagrams handled so far
    replied,          \* history, where a specification keeps it: the DNS
                      \* responses sent so far, each by its address and id,
                      \* and the address each upstream id was last sent to
    frame             \* the call of a codec or parser function under way,
                      \* with its arguments and locals

vars == << queries, curr_req_id, up_dns_addr, ttl, hosts, key, now, next_clear_time,
           woken, down_out, up_out, err, last, requests, nsent, chain, nd,
           replied, frame >>

\* The state of the server, which the codec and parser functions leave alone.
server == << queries, curr_req_id, up_dns_addr, ttl, hosts, key, now,
             next_clear_time, woken, down_out, up_out, err, last, requests,
             nsent, chain, nd, replied >>

\* No codec or parser call is followed step by step.
NoFrame == [op |-> "none"]

config == << up_dns_addr, ttl, hosts, key >>

(***************************************************************************)
(* Packets.  DnsPacket::new() gives a header with id 0, all flags clear,   *)
(* rescode NOERROR and four empty sections.                                *)
(***************************************************************************)
NewPacket ==
    [id |-> 0, response |-> FALSE, recursion_desired |-> FALSE,
     recursion_available |-> FALSE, rescode |-> "NOERROR",
     questions |-> << >>, answers |-> << >>, authorities |-> << >>,
     resources |-> << >>]

SocketAddr(ip, port) == [ip |-> ip, port |-> port]

\* The placeholder address of a child record: 0.0.0.0:0.
NoClient == SocketAddr(UNSPECIFIED, 0)

QueryData(id, addr, question, forword, expire, count) ==
    [id |-> id, addr |-> addr, question |-> question, forword |-> forword,
     expire |-> expire, count |-> count]

\* Mutant: an insert under a key already present keeps the old record.
Insert_KeepOld(qs, k, v) == qs @@ (k :> v)

Insert(qs, k, v) == (k :> v) @@ qs

\* Mutant: the record is looked up and left in the table.
Remove_Keep(qs, k) == qs

Remove(qs, k) == [i \in (DOMAIN qs) \ {k} |-> qs[i]]

(***************************************************************************)
(* now_of_unix, expire_of_unix.                                            *)
(***************************************************************************)
expire_of_unix == now + QUERY_TIMEOUT

(***************************************************************************)
(* next_req_id: the counter after the call, which is also the id returned. *)
(***************************************************************************)
next_req_id == (curr_req_id + 1) % U16

(***************************************************************************)
(* local_lookup.                                                           *)
(***************************************************************************)
\* Mutant: the answer carries a fixed ttl instead of the configured one.
local_lookup_FixedTtl(qname) ==
    IF qname \in DOMAIN hosts
    THEN Some(RecA(qname, hosts[qname], 0))
    ELSE None

local_lookup(qname) ==
    IF qname \in DOMAIN hosts
    THEN Some(RecA(qname, hosts[qname], ttl))
    ELSE None

(***************************************************************************)
(* send_request: the datagram handed to up_socket.send_to.                 *)
(***************************************************************************)
send_request(dns_addr, req_id, question) ==
    [to |-> SocketAddr(dns_addr, DNS_PORT),
     packet |-> [NewPacket EXCEPT !.id = req_id,
                                  !.recursion_desired = TRUE,
                                  !.questions = << question >>]]

(***************************************************************************)
(* response: the datagram handed to socket.send_to.  answers is the        *)
(* sequence passed as Some(..), or the empty sequence for None.            *)
(***************************************************************************)
\* Mutant: the answers are copied in reverse order.
response_Reversed(resp_code, query, answers) ==
    [to |-> query.addr,
     packet |-> [NewPacket EXCEPT !.id = query.id,
                                  !.rescode = resp_code,
                                  !.recursion_desired = TRUE,
                                  !.recursion_available = TRUE,
                                  !.response = TRUE,
                                  !.questions = << query.question >>,
                                  !.answers = [i \in 1 .. Len(answers) |->
                                                  answers[Len(answers) + 1 - i]]]]

response(resp_code, query, answers) ==
    [to |-> query.addr,
     packet |-> [NewPacket EXCEPT !.id = query.id,
                                  !.rescode = resp_code,
                                  !.recursion_desired = TRUE,
                                  !.recursion_available = TRUE,
                                  !.response = TRUE,
                                  !.questions = << query.question >>,
                                  !.answers = answers]]

(***************************************************************************)
(* remove_recursive_query: the table after the walk-up and the record      *)
(* returned (None when an id on the path is missing).                      *)
(***************************************************************************)
\* Mutant: only the record under id is removed, its parents stay.
remove_recursive_query_OneStep(qs, id) ==
    IF id \in DOMAIN qs
    THEN [queries |-> Remove(qs, id), top |-> Some(qs[id])]
    ELSE [queries |-> qs, top |-> None]

RECURSIVE remove_recursive_query(_, _)
remove_recursive_query(qs, id) ==
    IF id \in DOMAIN qs
    THEN IF qs[id].forword > 0
         THEN remove_recursive_query(Remove(qs, id), qs[id].forword)
         ELSE [queries |-> Remove(qs, id), top |-> Some(qs[id])]
    ELSE [queries |-> qs, top |-> None]

(***************************************************************************)
(* clear_queries_of_timeout: the table after the sweep.                    *)
(***************************************************************************)
\* Mutant: a record whose expiry is the present second is removed too.
clear_queries_of_timeout_Early(qs) ==
    [k \in { i \in DOMAIN qs : now < qs[i].expire } |-> qs[k]]

clear_queries_of_timeout(qs) ==
    [i \in {k \in DOMAIN qs : now <= qs[k].expire} |-> qs[i]]

(***************************************************************************)
(* DnsPacket::get_resolved_ns, get_unresolved_ns (dnsutil.rs).             *)
(***************************************************************************)
IsSuffix(domain, qname) ==
    /\ Len(domain) <= Len(qname)
    /\ SubSeq(qname, Len(qname) - Len(domain) + 1, Len(qname)) = domain

MatchingNs(packet, qname) ==
    {i \in DOMAIN packet.authorities :
        /\ packet.authorities[i].type = "NS"
        /\ IsSuffix(packet.authorities[i].domain, qname)}

Glue(packet, qname) ==
    {p \in MatchingNs(packet, qname) \X DOMAIN packet.resources :
        /\ packet.resources[p[2]].type = "A"
        /\ packet.resources[p[2]].domain = packet.authorities[p[1]].host}

get_resolved_ns(packet, qname) ==
    LET g == Glue(packet, qname)
    IN  IF g = {} THEN None
        ELSE LET first == CHOOSE p \in g :
                            \A o \in g : \/ p[1] < o[1]
                                         \/ (p[1] = o[1] /\ p[2] <= o[2])
             IN  Some(packet.resources[first[2]].addr)

get_unresolved_ns(packet, qname) ==
    LET m == {i \in MatchingNs(packet, qname) :
                 \A p \in Glue(packet, qname) : p[1] # i}
    IN  IF m = {} THEN None
        ELSE LET first == CHOOSE i \in m : \A o \in m : i <= o
             IN  Some(packet.authorities[first].host)

(***************************************************************************)
(* The outcome of a handler: the new table and counter, the datagrams it   *)
(* sends on each socket, and its result.                                   *)
(***************************************************************************)
Outcome(qs, req_id, down, up, e) ==
    [queries |-> qs, curr_req_id |-> req_id, down |-> down, up |-> up, err |-> e]

(***************************************************************************)
(* handle_query.  has_room is its test of the table's length, no_upstream  *)
(* its test of the parent DNS address.                                     *)
(***************************************************************************)
\* Mutant: the cap test lets a record in when the table is at the cap.
has_room_AtCap == Cardinality(DOMAIN queries) <= MAX_QUERIES_LEN

has_room == Cardinality(DOMAIN queries) < MAX_QUERIES_LEN

\* Mutant: an unconfigured parent DNS is not noticed.
no_upstream_Ignored == FALSE

no_upstream == up_dns_addr = UNSPECIFIED

handle_query(query) ==
    LET rec == local_lookup(query.question.name)
    IN  IF rec # None
        THEN Outcome(queries, curr_req_id,
                     << response("NOERROR", query, rec) >>, << >>, "ok")
        ELSE IF no_upstream
        THEN Outcome(queries, curr_req_id,
                     << response("NXDOMAIN", query, << >>) >>, << >>, "ok")
        ELSE IF has_room
        THEN LET req_id == next_req_id
             IN  Outcome(Insert(queries, req_id, query), req_id, << >>,
                         << send_request(up_dns_addr, req_id, query.question) >>,
                         "ok")
        ELSE Outcome(queries, curr_req_id,
                     << response("REFUSED", query, << >>) >>, << >>, "ok")

(***************************************************************************)
(* handle_response.  inc_count is the record after query.count.set(..+1);  *)
(* new_query is the child record built for an NS name without glue.        *)
(***************************************************************************)
\* Mutant: the hop is not counted.
inc_count_Stuck(query) == query

inc_count(query) == [query EXCEPT !.count = query.count + 1]

\* Mutant: the child starts with its parent's hop count.
new_query_SameHops(resp, query, new_ns_name) ==
    QueryData(0, NoClient, DnsQuestion(new_ns_name, "A"), resp.id,
              expire_of_unix, query.count)

new_query(resp, query, new_ns_name) ==
    QueryData(0, NoClient, DnsQuestion(new_ns_name, "A"), resp.id,
              expire_of_unix, query.count + 1)

\* Mutant: a reply that finds no record still uses up an id.
not_found_Counted == Outcome(queries, next_req_id, << >>, << >>, "ok")

\* queries.remove(id) found nothing: return Ok(()) with nothing done.
not_found == Outcome(queries, curr_req_id, << >>, << >>, "ok")

handle_response(resp) ==
    IF resp.id \notin DOMAIN queries
    THEN not_found
    ELSE
    LET query == queries[resp.id]
        qs == Remove(queries, resp.id)
    IN  IF resp.answers # << >> /\ resp.rescode = "NOERROR"
        THEN IF query.forword = 0
             THEN Outcome(qs, curr_req_id,
                          << response(resp.rescode, query, resp.answers) >>,
                          << >>, "ok")
             ELSE IF query.forword \in DOMAIN qs
             THEN IF resp.answers[1].type = "A"
                  THEN Outcome(qs, curr_req_id, << >>,
                               << send_request(resp.answers[1].addr, query.forword,
                                               qs[query.forword].question) >>,
                               "ok")
                  ELSE Outcome(remove_recursive_query(qs, query.forword).queries,
                               curr_req_id, << >>, << >>,
                               "dns server address is not ipv4")
             ELSE Outcome(qs, curr_req_id, << >>, << >>,
                          "parent query record not found")
        ELSE IF resp.rescode = "NXDOMAIN"
        THEN IF query.forword = 0
             THEN Outcome(qs, curr_req_id,
                          << response(resp.rescode, query, resp.answers) >>,
                          << >>, "ok")
             ELSE LET up == remove_recursive_query(qs, query.forword)
                  IN  IF up.top # None
                      THEN Outcome(up.queries, curr_req_id,
                                   << response(resp.rescode, up.top[1], resp.answers) >>,
                                   << >>, "ok")
                      ELSE Outcome(up.queries, curr_req_id, << >>, << >>,
                                   "top query record not found")
        ELSE IF query.count > MAX_FORWARD_COUNT
        THEN Outcome(qs, curr_req_id,
                     << response("REFUSED", query, << >>) >>, << >>, "ok")
        ELSE
        LET new_ns == get_resolved_ns(resp, query.question.name)
            new_ns_name == get_unresolved_ns(resp, query.question.name)
        IN  IF new_ns # None
            THEN LET q2 == inc_count(query)
                 IN  Outcome(Insert(qs, resp.id, q2), curr_req_id, << >>,
                             << send_request(new_ns[1], resp.id, q2.question) >>,
                             "ok")
            ELSE IF new_ns_name = None
            THEN Outcome(qs, curr_req_id,
                         << response("REFUSED", query, << >>) >>, << >>, "ok")
            ELSE
            LET child == new_query(resp, query, new_ns_name[1])
                new_req_id == next_req_id
            IN  Outcome(Insert(Insert(qs, resp.id, query), new_req_id, child),
                        new_req_id, << >>,
                        << send_request(up_dns_addr, new_req_id, child.question) >>,
                        "ok")

(***************************************************************************)
(* The effect of a handler on the state.                                   *)
(***************************************************************************)
Off == << -1 >>

Awaiting(out) == IF out.up # << >> THEN Some(out.up[1].packet.id) ELSE None

\* The history of sends: not kept, or the log of the responses sent and,
\* for each upstream id, the address of the last request sent under it (a
\* handler sends at most one).  At the start the requests of the records
\* already pending have gone to the parent DNS.
Untracked == [on |-> FALSE, log |-> << >>, sent |-> << >>]

Tracked(qs, dns) ==
    [on |-> TRUE, log |-> << >>,
     sent |-> [k \in DOMAIN qs |-> SocketAddr(dns, DNS_PORT)]]

Tally(out) ==
    IF replied.on
    THEN [replied EXCEPT
            !.log = @ \o [i \in DOMAIN out.down |->
                            [to |-> out.down[i].to,
                             id |-> out.down[i].packet.id]],
            !.sent = IF out.up = << >> THEN @
                     ELSE (out.up[1].packet.id :> out.up[1].to) @@ @]
    ELSE replied

Apply(out) ==
    /\ replied' = Tally(out)
    /\ queries' = out.queries
    /\ curr_req_id' = out.curr_req_id
    /\ down_out' = out.down
    /\ up_out' = out.up
    /\ err' = out.err
    /\ nsent' = nsent + Len(out.up)

(***************************************************************************)
(* server_recv, for one datagram d that is not a dynamic-update packet:    *)
(* DnsPacket::from_buffer parses it, questions.pop() takes its last        *)
(* question and the record built from it goes to handle_query.             *)
(***************************************************************************)
NewQuery(d) ==
    QueryData(d.packet.id, d.from, d.packet.questions[Len(d.packet.questions)],
              0, expire_of_unix, 0)

\* The result of a handler whose send_to succeeds (delivered) or fails: every
\* path of handle_query and handle_response ends with its one send, after
\* its changes to the table, so a failed send changes the result only.
Sent(out, delivered) ==
    IF delivered \/ (out.down = << >> /\ out.up = << >>)
    THEN out
    ELSE [out EXCEPT !.err = "send_to failed"]

ServerRecvWith(d, delivered) ==
    /\ woken' = TRUE
    /\ nd' = nd + 1
    /\ UNCHANGED << config, now, next_clear_time, frame >>
    /\ IF d.packet.questions = << >>
       THEN /\ Apply(Outcome(queries, curr_req_id, << >>, << >>, "no question"))
            /\ last' = [op |-> "server_recv", query |-> None, datagram |-> d]
            /\ chain' = Off
            /\ UNCHANGED requests
       ELSE /\ Apply(Sent(handle_query(NewQuery(d)), delivered))
            /\ last' = [op |-> "server_recv", query |-> Some(NewQuery(d)),
                        datagram |-> d]
            /\ requests' = requests \cup {NewQuery(d)}
            /\ chain' = IF chain = None /\ queries = << >>
                         THEN Awaiting(handle_query(NewQuery(d)))
                         ELSE Off

ServerRecv(d) == ServerRecvWith(d, TRUE)

(***************************************************************************)
(* client_recv, for one datagram whose packet is p.  The history notes     *)
(* whether p's id keyed a record, and whether p repeats the datagram       *)
(* handled just before it, when that one sent a response to a client.      *)
(* src is the sender of the datagram, which client_recv drops (line 153).  *)
(***************************************************************************)
ClientRecvFrom(src, p, delivered) ==
    /\ woken' = TRUE
    /\ nd' = nd + 1
    /\ Apply(Sent(handle_response(p), delivered))
    /\ last' = [op |-> "client_recv", packet |-> p, from |-> src,
                 found |-> p.id \in DOMAIN queries,
                 again |-> /\ last.op = "client_recv"
                           /\ last.packet = p
                           /\ down_out # << >>]
    /\ chain' = IF chain = Some(p.id) THEN Awaiting(handle_response(p)) ELSE Off
    /\ UNCHANGED << config, now, next_clear_time, requests, frame >>

\* A datagram whose sender is the parent DNS.
ClientRecvWith(p, delivered) ==
    ClientRecvFrom(SocketAddr(up_dns_addr, DNS_PORT), p, delivered)

ClientRecv(p) == ClientRecvWith(p, TRUE)

(***************************************************************************)
(* recv_from fails on either socket with an error other than WouldBlock:   *)
(* server_recv or client_recv returns it, and run returns it with `?`.     *)
(***************************************************************************)
RecvError ==
    /\ woken' = TRUE
    /\ down_out' = << >>
    /\ up_out' = << >>
    /\ err' = "recv_from failed"
    /\ last' = [op |-> "returned"]
    /\ UNCHANGED << queries, curr_req_id, config, now, next_clear_time,
                    requests, nsent, chain, nd, replied, frame >>

(***************************************************************************)
(* The end of an iteration of run's loop: the sweep, when it is due.       *)
(***************************************************************************)
LoopEnd ==
    /\ woken
    /\ woken' = FALSE
    /\ IF next_clear_time < now
       THEN /\ queries' = clear_queries_of_timeout(queries)
            /\ next_clear_time' = now + CLEAR_QUERIES_INTERVAL
            /\ last' = [op |-> "sweep"]
            /\ chain' = IF clear_queries_of_timeout(queries) = queries
                         THEN chain ELSE Off
       ELSE /\ UNCHANGED << queries, next_clear_time, chain >>
            /\ last' = [op |-> "idle"]
    /\ down_out' = << >>
    /\ up_out' = << >>
    /\ err' = "ok"
    /\ UNCHANGED << config, curr_req_id, now, requests, nsent, nd, replied,
                    frame >>

(***************************************************************************)
(* Time passes, while the loop waits in poll.                              *)
(***************************************************************************)
Tick ==
    /\ ~woken
    /\ \E d \in TickSteps :
          /\ now + d <= StartTime + MaxTime
          /\ now' = now + d
    /\ UNCHANGED << config, queries, curr_req_id, next_clear_time, woken,
                    down_out, up_out, err, last, requests, nsent, chain, nd,
                    replied, frame >>

(***************************************************************************)
(* Inputs: the datagrams of the model's universe.                          *)
(***************************************************************************)
ClientDatagrams ==
    { [from |-> Client1,
       packet |-> [NewPacket EXCEPT !.id = 4660, !.recursion_desired = TRUE,
                       !.questions = << DnsQuestion(ExampleLocal, "A") >>]],
      [from |-> Client2,
       packet |-> [NewPacket EXCEPT !.id = 43981, !.recursion_desired = TRUE,
                       !.questions = << DnsQuestion(ExampleCom, "A") >>]],
      [from |-> Client1,
       packet |-> [NewPacket EXCEPT !.id = 4661, !.recursion_desired = TRUE,
                       !.questions = << DnsQuestion(ExampleLocal, "A"),
                                        DnsQuestion(ExampleCom, "AAAA") >>]],
      [from |-> Client2,
       packet |-> [NewPacket EXCEPT !.id = 43982]] }

Referral(host) ==
    << RecNS(<<"com">>, host), RecNS(<<"test">>, host) >>

ReplyBodies ==
    { \* an answer: two A records
      [NewPacket EXCEPT !.response = TRUE,
                        !.answers = << RecA(ExampleCom, AnswerIp2, 60),
                                       RecA(ExampleCom, AnswerIp, 60) >>],
      \* an answer whose first record is not an A record
      [NewPacket EXCEPT !.response = TRUE,
                        !.answers = << RecCNAME(ExampleCom, GlueNs),
                                       RecA(GlueNs, AnswerIp, 60) >>],
      \* the name does not exist
      [NewPacket EXCEPT !.response = TRUE, !.rescode = "NXDOMAIN"],
      \* a referral with glue
      [NewPacket EXCEPT !.response = TRUE,
                        !.authorities = Referral(GlueNs),
                        !.resources = << RecA(GlueNs, GlueIp, 60) >>],
      \* a referral without glue
      [NewPacket EXCEPT !.response = TRUE,
                        !.authorities = Referral(NoGlueNs)],
      \* a failure that names no usable server
      [NewPacket EXCEPT !.response = TRUE, !.rescode = "SERVFAIL",
                        !.authorities = << RecNS(<<"org">>, GlueNs) >>,
                        !.resources = << RecA(GlueNs, GlueIp, 60) >>],
      \* a failure that carries answers and a referral with glue
      [NewPacket EXCEPT !.response = TRUE, !.rescode = "SERVFAIL",
                        !.answers = << RecA(ExampleCom, AnswerIp, 60) >>,
                        !.authorities = Referral(GlueNs),
                        !.resources = << RecA(GlueNs, GlueIp, 60) >>] }

\* The ids upstream datagrams carry: those next to the counter.
ReplyIds == { (curr_req_id + U16 + d) % U16 : d \in (0 - IdSpan) .. 1 }

UpReplies == { [b EXCEPT !.id = i] : b \in ReplyBodies, i \in ReplyIds }

(***************************************************************************)
(* Init: the server after create, the static load of the hosts file and    *)
(* the start of run.  The id counter and the pending table are those of    *)
(*   - a server just started;                                              *)
(*   - a server that has allocated 65535 ids and holds no record;          *)
(*   - a server that has forwarded one client query (OldQuery, under id 7) *)
(*     and awaits its reply;                                               *)
(*   - the same server after 65535 further allocations, none still         *)
(*     pending: the counter has gone once around and the next id is 7.     *)
(***************************************************************************)
OldQuery ==
    QueryData(4662, Client1, DnsQuestion(ExampleCom, "A"), 0,
              StartTime + QUERY_TIMEOUT, 0)

Histories ==
    { [curr_req_id |-> 0, queries |-> << >>, requests |-> {}, chain |-> None],
      [curr_req_id |-> U16 - 1, queries |-> << >>, requests |-> {},
       chain |-> None],
      [curr_req_id |-> 7, queries |-> (7 :> OldQuery), requests |-> {OldQuery},
       chain |-> Some(7)],
      [curr_req_id |-> 6, queries |-> (7 :> OldQuery), requests |-> {OldQuery},
       chain |-> Some(7)] }

InitState(h, dns, r) ==
    /\ replied = r
    /\ queries = h.queries
    /\ curr_req_id = h.curr_req_id
    /\ requests = h.requests
    /\ chain = h.chain
    /\ up_dns_addr = dns
    /\ ttl = 300
    /\ key = SharedKey
    /\ hosts = (ExampleLocal :> LocalIp)
    /\ now = StartTime
    /\ next_clear_time = now + CLEAR_QUERIES_INTERVAL
    /\ woken = FALSE
    /\ down_out = << >>
    /\ up_out = << >>
    /\ err = "ok"
    /\ last = [op |-> "init"]
    /\ nsent = 0
    /\ nd = 0

InitServer(h, dns) == InitState(h, dns, Untracked)

InitWith(h, dns) == InitServer(h, dns) /\ frame = NoFrame

Init ==
    \E h \in Histories, dns \in {UNSPECIFIED, ParentDns} :
        /\ (dns = UNSPECIFIED => h.curr_req_id = 0)
        /\ InitWith(h, dns)

Next ==
    \/ /\ nd < MaxDatagrams
       /\ \E d \in ClientDatagrams : ServerRecv(d)
    \/ /\ nd < MaxDatagrams
       /\ \E p \in UpReplies : ClientRecv(p)
    \/ LoopEnd
    \/ Tick

Spec == Init /\ [][Next]_vars

(***************************************************************************)
(* Dynamic updates (dyn_dns).  The text of a datagram is the sequence of   *)
(* the tokens that text.split(' ') yields; len is its length in bytes.     *)
(* The md5 digest in lowercase hex is a symbolic value: equal byte         *)
(* strings, and only those, have equal digests.                            *)
(***************************************************************************)
Md5Hex(bytes) == "md5<" \o bytes \o ">"

\* Mutant: the digest is not compared.
check_dyndns_md5_Any(params) == TRUE

check_dyndns_md5(params) ==
    params[2] = Md5Hex(params[3] \o params[4] \o params[5] \o key)

\* str::parse::<u64> on the id tokens of the model: the value of a decimal
\* numeral that fits 64 bits (a leading zero is allowed), an error otherwise.
ParseU64 ==
    ("1" :> 1) @@ ("399" :> 399) @@ ("400" :> 400) @@ ("0400" :> 400) @@ ("1000" :> 1000)
    @@ ("1600" :> 1600) @@ ("1601" :> 1601)

\* Some(TRUE / FALSE), or None for the error of parse.  The clock of the
\* model is past C_2023_01_01 + C_DYNDNS_TIME_RANGE, so neither u64
\* subtraction wraps.
check_dyndns_time(id) ==
    IF id \notin DOMAIN ParseU64
    THEN None
    ELSE LET now_ == now - C_2023_01_01
             id_num == ParseU64[id]
         IN  Some(/\ id_num <= now_ + C_DYNDNS_TIME_RANGE
                  /\ id_num >= now_ - C_DYNDNS_TIME_RANGE)

\* str::parse::<Ipv4Addr>: a dotted quad in canonical form parses to the
\* address that prints as the same text; anything else is an error.
Ipv4Literals == {"0.0.0.0", "192.0.2.55", "203.0.113.7", "198.51.100.9", "10.0.0.1"}

ParseIpv4(ip) == IF ip \in Ipv4Literals THEN Some(ip) ELSE None

\* The name a host token stands for, label by label; the letters are kept
\* as they are written.
NameOf ==
    ("home.lan" :> <<"home", "lan">>) @@ ("example.local" :> ExampleLocal)
    @@ ("Home.LAN" :> <<"Home", "LAN">>)

\* Mutant: a name already bound keeps its address.
register_host_KeepOld(h, host, ip) ==
    IF ParseIpv4(ip) = None
    THEN None
    ELSE Some(h @@ (NameOf[host] :> ParseIpv4(ip)[1]))

\* Mutant: the table is emptied before the insert.
register_host_Alone(h, host, ip) ==
    IF ParseIpv4(ip) = None
    THEN None
    ELSE Some(NameOf[host] :> ParseIpv4(ip)[1])

\* register_host: Some(the new table), or None for the error of parse.
register_host(h, host, ip) ==
    IF ParseIpv4(ip) = None
    THEN None
    ELSE Some((NameOf[host] :> ParseIpv4(ip)[1]) @@ h)

TextReply(addr, text) == [to |-> addr, text |-> text]

DynOutcome(ret, replies, h) == [ret |-> ret, down |-> replies, hosts |-> h]

\* Mutant: the length of the datagram is not tested.
not_dyndns_MagicOnly(d) == d.tokens[1] # C_DNYDNS_MAGIC

\* The first test of dyn_dns: the datagram is too short or does not start
\* with the magic.  The first token of every text of the model is four
\* bytes long, so it is the first four bytes of the datagram.
not_dyndns(d) == d.len < C_DYNDNS_MIN_LEN \/ d.tokens[1] # C_DNYDNS_MAGIC

\* ret is "true" / "false" for Ok(true) / Ok(false), "err" for Err(..).
dyn_dns(d) ==
    LET params == d.tokens
        error == << TextReply(d.from, "error") >>
    IN  IF not_dyndns(d)
        THEN DynOutcome("false", << >>, hosts)
        ELSE IF Len(params) < C_DYNDNS_PARAM_COUNT
        THEN DynOutcome("true", error, hosts)
        ELSE IF ~check_dyndns_md5(params)
        THEN DynOutcome("true", error, hosts)
        ELSE IF check_dyndns_time(params[3]) = None
        THEN DynOutcome("err", << >>, hosts)
        ELSE IF ~check_dyndns_time(params[3])[1]
        THEN DynOutcome("true", error, hosts)
        ELSE LET ip == IF params[5] = "0.0.0.0" THEN d.from.ip ELSE params[5]
                 reg == register_host(hosts, params[4], ip)
             IN  IF reg = None
                 THEN DynOutcome("err", << >>, hosts)
                 ELSE DynOutcome("true",
                                 << TextReply(d.from, params[4] \o " " \o ip) >>,
                                 reg[1])

(***************************************************************************)
(* server_recv, for one datagram d that passes the magic test of dyn_dns.  *)
(* On Ok(true) the loop continues with the next datagram.  On Err the      *)
(* error is logged and DnsPacket::from_buffer reads the text as a DNS      *)
(* packet: its bytes 4 and 5, a space and a digest character, are the      *)
(* question count, more than 8192 questions, which the 512-byte buffer     *)
(* cannot hold, so the parse fails and that error is logged too.  The      *)
(* history notes whether from_buffer was called on the datagram.           *)
(***************************************************************************)
DynRecv(d) ==
    /\ dyn_dns(d).ret # "false"
    /\ woken' = TRUE
    /\ nd' = nd + 1
    /\ hosts' = dyn_dns(d).hosts
    /\ down_out' = dyn_dns(d).down
    /\ up_out' = << >>
    /\ err' = IF dyn_dns(d).ret = "true" THEN "ok" ELSE "dyndns server error"
    /\ last' = [op |-> "dyn_dns", datagram |-> d,
                 parsed |-> dyn_dns(d).ret = "err"]
    /\ UNCHANGED << queries, curr_req_id, up_dns_addr, ttl, key, now,
                    next_clear_time, requests, nsent, chain, replied, frame >>

(***************************************************************************)
(* server_recv, for one datagram d of text that dyn_dns does not take:     *)
(* DnsPacket::from_buffer reads the text as a DNS packet.  Bytes 4 and 5   *)
(* of the text, a space and a character, are the question count, more than *)
(* 8192 questions, which no datagram of 512 bytes holds (check_range stops *)
(* every read at the datagram's length), so the parse fails, the error is  *)
(* logged and nothing else happens.                                        *)
(***************************************************************************)
TextRecv(d) ==
    /\ dyn_dns(d).ret = "false"
    /\ woken' = TRUE
    /\ nd' = nd + 1
    /\ down_out' = << >>
    /\ up_out' = << >>
    /\ err' = "serve_recv data format error"
    /\ last' = [op |-> "from_buffer", datagram |-> d]
    /\ UNCHANGED << queries, curr_req_id, config, now, next_clear_time,
                    requests, nsent, chain, replied, frame >>

(***************************************************************************)
(* SpecDyn: a server just started receives dynamic-update datagrams from   *)
(* Client1 while time passes.  The datagrams: every choice of host, ip and *)
(* id token with its right digest or with a digest of zeros, and one       *)
(* datagram of four tokens.                                                *)
(***************************************************************************)
TooBigId == "18446744073709551616"
ZeroDigest == "00000000000000000000000000000000"

IdTokens == (DOMAIN ParseU64) \cup {TooBigId, "abc"}
HostTokens == DOMAIN NameOf
IpTokens == {"0.0.0.0", "192.0.2.55", "not-an-ip"}

\* The length in bytes of the text: the tokens, the second of which is a
\* digest of 32 characters, and the spaces between them.
RECURSIVE WireLen(_, _)
WireLen(tokens, i) ==
    IF i > Len(tokens)
    THEN 0
    ELSE (IF i = 2 THEN 32 ELSE Len(tokens[i]))
         + (IF i < Len(tokens) THEN 1 ELSE 0) + WireLen(tokens, i + 1)

DynDatagram(from, tokens) ==
    [from |-> from, len |-> WireLen(tokens, 1), tokens |-> tokens]

Signed(id, host, ip) ==
    << C_DNYDNS_MAGIC, Md5Hex(id \o host \o ip \o SharedKey), id, host, ip >>

DynTexts ==
    \* rightly signed
    { Signed(i, h, a) : i \in IdTokens, h \in HostTokens, a \in IpTokens }
    \* a digest of zeros
    \cup { << C_DNYDNS_MAGIC, ZeroDigest, i, h, a >> :
             i \in IdTokens, h \in HostTokens, a \in IpTokens }
    \* the ip token changed after signing
    \cup { [Signed(i, h, "192.0.2.55") EXCEPT ![5] = "0.0.0.0"] :
             i \in IdTokens, h \in HostTokens }
    \* four tokens
    \cup { << C_DNYDNS_MAGIC, ZeroDigest, "1000", "home.lan" >> }

DynDatagrams == { DynDatagram(Client1, t) : t \in DynTexts }

\* Texts of 48, 49, 50 and 51 bytes that start with the magic, rightly
\* signed, and a text of 58 bytes that does not start with it.
EdgeTexts ==
    { Signed("1", "ab", "1.1.1"), Signed("1", "a", "0.0.0.0"),
      Signed("1", "ab", "0.0.0.0"), Signed("1", "abc", "0.0.0.0"),
      << "kdnx", ZeroDigest, "1000", "home.lan", "0.0.0.0" >> }

EdgeDatagrams == { DynDatagram(Client1, t) : t \in EdgeTexts }

\* read_qname pushes every label through to_lowercase.
LowerOf == ("Home" :> "home") @@ ("LAN" :> "lan")

to_lowercase(name) ==
    [i \in DOMAIN name |->
        IF name[i] \in DOMAIN LowerOf THEN LowerOf[name[i]] ELSE name[i]]

\* Client A queries for the names of the host tokens, as from_buffer reads
\* them.
DynQueries ==
    { [from |-> Client2,
       packet |-> [NewPacket EXCEPT !.id = 43981, !.recursion_desired = TRUE,
                       !.questions =
                           << DnsQuestion(to_lowercase(NameOf[h]), "A") >>]] :
      h \in HostTokens }

InitDyn ==
    InitWith([curr_req_id |-> 0, queries |-> << >>, requests |-> {},
              chain |-> None], ParentDns)

NextDyn ==
    \/ /\ nd < MaxDynDatagrams
       /\ \E d \in DynDatagrams \cup EdgeDatagrams : DynRecv(d)
    \/ /\ nd < MaxDynDatagrams
       /\ \E d \in DynDatagrams \cup EdgeDatagrams : TextRecv(d)
    \/ /\ nd < MaxDynDatagrams
       /\ \E d \in DynQueries : ServerRecv(d)
    \/ /\ nd < MaxDynDatagrams
       /\ \E p \in UpReplies : ClientRecv(p)
    \/ LoopEnd
    \/ Tick

SpecDyn == InitDyn /\ [][NextDyn]_vars

(***************************************************************************)
(* SpecChain: one resolution chain.  A server just started receives one    *)
(* client query and then only upstream replies, each to a request the      *)
(* chain has sent; no time passes, so no record expires.  nsent counts the        *)
(* upstream sends, all of which belong to the one chain.                   *)
(***************************************************************************)
ChainQuery ==
    [from |-> Client2,
     packet |-> [NewPacket EXCEPT !.id = 43981, !.recursion_desired = TRUE,
                     !.questions = << DnsQuestion(ExampleCom, "A") >>]]

ChainBodies ==
    { [NewPacket EXCEPT !.response = TRUE,
                        !.answers = << RecA(GlueNs, ChildIp, 60) >>],
      [NewPacket EXCEPT !.response = TRUE,
                        !.authorities = Referral(GlueNs),
                        !.resources = << RecA(GlueNs, GlueIp, 60) >>],
      [NewPacket EXCEPT !.response = TRUE,
                        !.authorities = Referral(NoGlueNs)] }

\* A reply answers the request sent last.
ChainIds == IF chain \in {None, Off} THEN {} ELSE {chain[1]}

ChainReplies == { [b EXCEPT !.id = i] : b \in ChainBodies, i \in ChainIds }

InitChain ==
    InitWith([curr_req_id |-> 0, queries |-> << >>, requests |-> {},
              chain |-> None], ParentDns)

NextChain ==
    \/ /\ nd = 0
       /\ ServerRecv(ChainQuery)
    \/ /\ nsent < MaxSends
       /\ \E p \in ChainReplies : ClientRecv(p)
    \/ LoopEnd

SpecChain == InitChain /\ [][NextChain]_vars

(***************************************************************************)
(* SpecFull: the server at its cap.  MAX_QUERIES_LEN client queries, all   *)
(* received at time 0 and forwarded under the ids 1 .. MAX_QUERIES_LEN,    *)
(* await their replies; then come further client queries, upstream         *)
(* replies, the passing of time and the sweep.                             *)
(***************************************************************************)
FullTable ==
    [i \in 1 .. MAX_QUERIES_LEN |->
        QueryData(i, Client1, DnsQuestion(ExampleCom, "A"), 0,
                  StartTime + QUERY_TIMEOUT, 0)]

FullReplies == { [b EXCEPT !.id = i] : b \in ReplyBodies, i \in {1, curr_req_id} }

InitFull ==
    InitWith([curr_req_id |-> MAX_QUERIES_LEN, queries |-> FullTable,
              requests |-> { FullTable[i] : i \in 1 .. MAX_QUERIES_LEN },
              chain |-> Off], ParentDns)

NextFull ==
    \/ /\ nd < MaxFullDatagrams
       /\ \E d \in ClientDatagrams : ServerRecv(d)
    \/ /\ nd < MaxFullDatagrams
       /\ \E p \in FullReplies : ClientRecv(p)
    \/ LoopEnd
    \/ Tick

SpecFull == InitFull /\ [][NextFull]_vars

(***************************************************************************)
(* SpecErr: the server with sockets that fail.  Each send_to of a handler  *)
(* succeeds or fails, and recv_from may fail; run goes on until it         *)
(* returns.                                                                *)
(***************************************************************************)
Running == last.op # "returned"

NextErr ==
    \/ /\ Running
       /\ nd < MaxErrDatagrams
       /\ \E d \in ClientDatagrams, delivered \in BOOLEAN :
             ServerRecvWith(d, delivered)
    \/ /\ Running
       /\ nd < MaxErrDatagrams
       /\ \E p \in UpReplies, delivered \in BOOLEAN :
             ClientRecvWith(p, delivered)
    \/ /\ Running
       /\ RecvError
    \/ /\ Running
       /\ LoopEnd
    \/ /\ Running
       /\ Tick

SpecErr == Init /\ [][NextErr]_vars

(***************************************************************************)
(* SpecOnce: the server of Spec with the history of its responses kept,    *)
(* and no client datagram received twice: every client query has its own   *)
(* id and address, so that a record of the table tells its datagram.       *)
(***************************************************************************)
InitOnce ==
    /\ \E h \in Histories, dns \in {UNSPECIFIED, ParentDns} :
          /\ (dns = UNSPECIFIED => h.curr_req_id = 0)
          /\ InitState(h, dns, Tracked(h.queries, dns))
    /\ frame = NoFrame

NextOnce ==
    \/ /\ nd < MaxOnceDatagrams
       /\ \E d \in ClientDatagrams :
             /\ \A r \in requests : r.addr # d.from \/ r.id # d.packet.id
             /\ ServerRecv(d)
    \/ /\ nd < MaxOnceDatagrams
       /\ \E p \in UpReplies : ClientRecv(p)
    \/ LoopEnd
    \/ Tick

SpecOnce == InitOnce /\ [][NextOnce]_vars

(***************************************************************************)
(* SpecSpoof: the server of Spec, with the history of its sends kept, and  *)
(* upstream datagrams from three senders: the parent DNS, the server of    *)
(* the glue records, and a host the server has never sent anything to.     *)
(* The datagrams carry no question, or the question of a pending record.   *)
(***************************************************************************)
Stranger == "203.0.113.66"

Senders == { SocketAddr(ip, DNS_PORT) : ip \in {ParentDns, GlueIp, Stranger} }

SpoofReplies ==
    { [p EXCEPT !.questions = qs] :
        p \in UpReplies,
        qs \in {<< >>} \cup { << queries[k].question >> : k \in DOMAIN queries } }

NextSpoof ==
    \/ /\ nd < MaxSpoofDatagrams
       /\ \E d \in ClientDatagrams : ServerRecv(d)
    \/ /\ nd < MaxSpoofDatagrams
       /\ \E src \in Senders, p \in SpoofReplies : ClientRecvFrom(src, p, TRUE)
    \/ LoopEnd
    \/ Tick

SpecSpoof == InitOnce /\ [][NextSpoof]_vars

(***************************************************************************)
(* Properties.  A step is told by the history variables: nd counts the     *)
(* datagrams handled and last names the handler and its input.             *)
(***************************************************************************)
IsServerRecv == nd' = nd + 1 /\ last'.op = "server_recv"
IsClientRecv == nd' = nd + 1 /\ last'.op = "client_recv"

\* A reply that is a final answer: NOERROR with answers.
Final(p) == p.answers # << >> /\ p.rescode = "NOERROR"

\* A reply for a pending record that is neither a final answer nor NXDOMAIN
\* and finds the record within its hop limit.
ReferralFor(p) ==
    /\ p.id \in DOMAIN queries
    /\ ~Final(p)
    /\ p.rescode # "NXDOMAIN"
    /\ queries[p.id].count <= MAX_FORWARD_COUNT

\* Every record other than those under ids is untouched by the step.
OthersUnchanged(ids) ==
    \A k \in ((DOMAIN queries) \cup (DOMAIN queries')) \ ids :
        /\ k \in DOMAIN queries
        /\ k \in DOMAIN queries'
        /\ queries'[k] = queries[k]

(***************************************************************************)
(* C1: every DNS response the server sends has response, recursion_desired *)
(* and recursion_available set, and carries the id and the one question of *)
(* a client request and goes to the address that request came from.        *)
(***************************************************************************)
C1_ResponseEchoesRequest ==
    \A i \in DOMAIN down_out :
        LET d == down_out[i]
        IN  /\ d.packet.response
            /\ d.packet.recursion_desired
            /\ d.packet.recursion_available
            /\ \E r \in requests :
                  /\ d.to = r.addr
                  /\ d.packet.id = r.id
                  /\ d.packet.questions = << r.question >>

(***************************************************************************)
(* C2: a client query whose question name is a key of the host table is    *)
(* answered NOERROR with exactly one A record (the name, its bound         *)
(* address, the configured ttl); nothing goes upstream, no upstream id is  *)
(* allocated and the pending table is unchanged.                           *)
(***************************************************************************)
C2_LocalHit ==
    [][ (/\ IsServerRecv
         /\ last'.query # None
         /\ last'.query[1].question.name \in DOMAIN hosts)
        => LET q == last'.query[1]
           IN  /\ Len(down_out') = 1
               /\ down_out'[1].to = q.addr
               /\ down_out'[1].packet.rescode = "NOERROR"
               /\ down_out'[1].packet.answers =
                     << [type |-> "A", domain |-> q.question.name,
                         addr |-> hosts[q.question.name], ttl |-> ttl] >>
               /\ up_out' = << >>
               /\ curr_req_id' = curr_req_id
               /\ queries' = queries ]_vars

C2_Witness ==
    /\ last.op = "server_recv"
    /\ last.query # None
    /\ last.query[1].question.name \in DOMAIN hosts
    /\ Len(down_out) = 1
    /\ down_out[1].packet.rescode = "NOERROR"
    /\ Len(down_out[1].packet.answers) = 1

(***************************************************************************)
(* C3: a NOERROR reply with answers whose id keys a root record removes    *)
(* that record, inserts nothing, and sends the record's client a NOERROR   *)
(* response with exactly the reply's answers, in their order.              *)
(***************************************************************************)
C3_RootAnswer ==
    [][ (/\ IsClientRecv
         /\ Final(last'.packet)
         /\ last'.packet.id \in DOMAIN queries
         /\ queries[last'.packet.id].forword = 0)
        => LET p == last'.packet
               q == queries[p.id]
           IN  /\ DOMAIN queries' = (DOMAIN queries) \ {p.id}
               /\ OthersUnchanged({p.id})
               /\ Len(down_out') = 1
               /\ down_out'[1].to = q.addr
               /\ down_out'[1].packet.rescode = "NOERROR"
               /\ down_out'[1].packet.answers = p.answers
               /\ up_out' = << >> ]_vars

C3_Witness ==
    /\ last.op = "client_recv"
    /\ Final(last.packet)
    /\ Len(last.packet.answers) = 2
    /\ last.packet.id \notin DOMAIN queries
    /\ Len(down_out) = 1
    /\ down_out[1].to = Client2
    /\ down_out[1].packet.answers = last.packet.answers

(***************************************************************************)
(* C4: a referral with glue for a record within its hop limit adds exactly *)
(* one to the record's hop count, keeps the record under the same id with  *)
(* every other field unchanged, and sends the record's question to the     *)
(* glue address; a record starts with no hops, so one such referral leaves *)
(* it with one.                                                            *)
(***************************************************************************)
C4_GluedReferral ==
    [][ /\ (/\ IsClientRecv
            /\ ReferralFor(last'.packet)
            /\ get_resolved_ns(last'.packet,
                               queries[last'.packet.id].question.name) # None)
           => LET p == last'.packet
                  q == queries[p.id]
                  ip == get_resolved_ns(p, q.question.name)[1]
              IN  /\ DOMAIN queries' = DOMAIN queries
                  /\ queries'[p.id] = [q EXCEPT !.count = q.count + 1]
                  /\ OthersUnchanged({p.id})
                  /\ Len(up_out') = 1
                  /\ up_out'[1].to = [ip |-> ip, port |-> 53]
                  /\ up_out'[1].packet.id = p.id
                  /\ up_out'[1].packet.questions = << q.question >>
                  /\ down_out' = << >>
                  /\ curr_req_id' = curr_req_id
        /\ (IsServerRecv /\ up_out' # << >>)
           => queries'[curr_req_id'].count = 0 ]_vars

C4_Witness ==
    /\ last.op = "client_recv"
    /\ last.packet.id \in DOMAIN queries
    /\ queries[last.packet.id].count = 1
    /\ queries[last.packet.id].forword = 0
    /\ Len(up_out) = 1
    /\ up_out[1].to.ip = GlueIp
    /\ up_out[1].packet.id = last.packet.id

(***************************************************************************)
(* C5: a referral without glue for the record q popped from id i puts q    *)
(* back under i, inserts under a newly allocated id a child record         *)
(* (question {ns, A}, parent i, q's hops + 1, client 0.0.0.0:0, client id  *)
(* 0, fresh expiry) and sends the child's question to the parent DNS.      *)
(*   C5_Original: afterwards q is under i and the child under the new id.  *)
(*   C5_Amended: the child is under the new id, and q is under i unless    *)
(*   the new id is i itself.                                               *)
(***************************************************************************)
UngluedFor(p) ==
    /\ ReferralFor(p)
    /\ get_resolved_ns(p, queries[p.id].question.name) = None
    /\ get_unresolved_ns(p, queries[p.id].question.name) # None

ChildOf(p) ==
    [id |-> 0, addr |-> [ip |-> "0.0.0.0", port |-> 0],
     question |-> [name |-> get_unresolved_ns(p, queries[p.id].question.name)[1],
                   qtype |-> "A"],
     forword |-> p.id, expire |-> now + QUERY_TIMEOUT,
     count |-> queries[p.id].count + 1]

ChildSent(p) ==
    /\ curr_req_id' = (curr_req_id + 1) % 65536
    /\ curr_req_id' \in DOMAIN queries'
    /\ queries'[curr_req_id'] = ChildOf(p)
    /\ Len(up_out') = 1
    /\ up_out'[1].to = [ip |-> up_dns_addr, port |-> 53]
    /\ up_out'[1].packet.id = curr_req_id'
    /\ up_out'[1].packet.questions = << ChildOf(p).question >>
    /\ down_out' = << >>

C5_Original ==
    [][ (IsClientRecv /\ UngluedFor(last'.packet))
        => /\ ChildSent(last'.packet)
           /\ last'.packet.id \in DOMAIN queries'
           /\ queries'[last'.packet.id] = queries[last'.packet.id] ]_vars

C5_Amended ==
    [][ (IsClientRecv /\ UngluedFor(last'.packet))
        => LET i == last'.packet.id
           IN  /\ ChildSent(last'.packet)
               /\ DOMAIN queries' = (DOMAIN queries) \cup {curr_req_id'}
               /\ OthersUnchanged({i, curr_req_id'})
               /\ (curr_req_id' # i => queries'[i] = queries[i]) ]_vars

C5_Witness ==
    /\ last.op = "client_recv"
    /\ Len(up_out) = 1
    /\ up_out[1].packet.id = curr_req_id
    /\ curr_req_id \in DOMAIN queries
    /\ last.packet.id \in DOMAIN queries
    /\ curr_req_id # last.packet.id
    /\ queries[curr_req_id].forword = last.packet.id
    /\ queries[curr_req_id].question.name = NoGlueNs
    /\ queries[last.packet.id].forword = 0

(***************************************************************************)
(* C6: when a child record gets a NOERROR reply whose first answer is an A *)
(* record, the child is removed, its parent stays in the pending table     *)
(* under its own id and the parent's question goes to that address under   *)
(* the parent's id; and when a chain that started from an empty table gets *)
(* its root's answer, the client receives it and the table is empty again. *)
(***************************************************************************)
C6_ChildAnswer ==
    [][ /\ (/\ IsClientRecv
            /\ Final(last'.packet)
            /\ last'.packet.id \in DOMAIN queries
            /\ queries[last'.packet.id].forword # 0
            /\ last'.packet.answers[1].type = "A")
           => LET p == last'.packet
                  parent == queries[p.id].forword
              IN  /\ p.id \notin DOMAIN queries'
                  /\ parent \in DOMAIN queries'
                  /\ queries'[parent] = queries[parent]
                  /\ Len(up_out') = 1
                  /\ up_out'[1].to = [ip |-> p.answers[1].addr, port |-> 53]
                  /\ up_out'[1].packet.id = parent
                  /\ up_out'[1].packet.questions = << queries[parent].question >>
        /\ (/\ IsClientRecv
            /\ chain = Some(last'.packet.id)
            /\ Final(last'.packet)
            /\ queries[last'.packet.id].forword = 0)
           => /\ queries' = << >>
              /\ Len(down_out') = 1
              /\ down_out'[1].to = queries[last'.packet.id].addr
              /\ down_out'[1].packet.answers = last'.packet.answers ]_vars

(***************************************************************************)
(* C7: an NXDOMAIN reply for a root record removes it and sends its client *)
(* NXDOMAIN; for a child record it removes the child and every record on   *)
(* its parent chain, the root included, and sends NXDOMAIN, with the id of *)
(* the client's request, to the client that started the chain.             *)
(***************************************************************************)
RECURSIVE ParentChain(_, _, _)
ParentChain(qs, id, fuel) ==
    IF fuel = 0 \/ id \notin DOMAIN qs
    THEN {}
    ELSE {id} \cup (IF qs[id].forword = 0
                    THEN {}
                    ELSE ParentChain(qs, qs[id].forword, fuel - 1))

C7_Nxdomain ==
    [][ (/\ IsClientRecv
         /\ last'.packet.rescode = "NXDOMAIN"
         /\ last'.packet.id \in DOMAIN queries)
        => LET p == last'.packet
               q == queries[p.id]
               gone == ParentChain(queries, p.id, Cardinality(DOMAIN queries))
           IN  /\ DOMAIN queries' = (DOMAIN queries) \ gone
               /\ OthersUnchanged(gone)
               /\ up_out' = << >>
               /\ Len(down_out') = 1
               /\ down_out'[1].packet.rescode = "NXDOMAIN"
               /\ IF q.forword = 0
                  THEN /\ down_out'[1].to = q.addr
                       /\ down_out'[1].packet.id = q.id
                  ELSE \E r \in requests :
                          /\ \E k \in gone : /\ queries[k].forword = 0
                                             /\ queries[k].addr = r.addr
                                             /\ queries[k].id = r.id
                          /\ down_out'[1].to = r.addr
                          /\ down_out'[1].packet.id = r.id ]_vars

(***************************************************************************)
(* C8: the upstream sends of the one chain of SpecChain never number more  *)
(* than MAX_FORWARD_COUNT + 1 = 11.                                        *)
(***************************************************************************)
C8_HopCap == nsent <= MAX_FORWARD_COUNT + 1

(***************************************************************************)
(* C9: the pending table never holds more than MAX_QUERIES_LEN records.    *)
(***************************************************************************)
C9_TableCap == Cardinality(DOMAIN queries) <= MAX_QUERIES_LEN

(***************************************************************************)
(* C10: a client request that arrives while the pending table holds        *)
(* MAX_QUERIES_LEN records gets REFUSED; no record is inserted, no         *)
(* upstream id is allocated and nothing goes upstream.                     *)
(*   C10_Original: every request handed to handle_query.                   *)
(*   C10_Amended: every such request whose name is not in the host table.  *)
(***************************************************************************)
RefusedAtCap ==
    LET q == last'.query[1]
    IN  /\ Len(down_out') = 1
        /\ down_out'[1].to = q.addr
        /\ down_out'[1].packet.id = q.id
        /\ down_out'[1].packet.rescode = "REFUSED"
        /\ down_out'[1].packet.answers = << >>
        /\ queries' = queries
        /\ curr_req_id' = curr_req_id
        /\ up_out' = << >>

C10_Original ==
    [][ (/\ IsServerRecv
         /\ last'.query # None
         /\ Cardinality(DOMAIN queries) = MAX_QUERIES_LEN)
        => RefusedAtCap ]_vars

C10_Amended ==
    [][ (/\ IsServerRecv
         /\ last'.query # None
         /\ Cardinality(DOMAIN queries) = MAX_QUERIES_LEN
         /\ last'.query[1].question.name \notin DOMAIN hosts)
        => RefusedAtCap ]_vars

C10_Witness ==
    /\ last.op = "server_recv"
    /\ last.query # None
    /\ last.query[1].question.name \notin DOMAIN hosts
    /\ Cardinality(DOMAIN queries) = MAX_QUERIES_LEN
    /\ curr_req_id = MAX_QUERIES_LEN
    /\ Len(down_out) = 1
    /\ down_out[1].packet.rescode = "REFUSED"
    /\ up_out = << >>

Leaves(k) ==
    \/ k \notin DOMAIN queries'
    \/ [queries'[k] EXCEPT !.count = 0] # [queries[k] EXCEPT !.count = 0]

Answered(q) ==
    \E i \in DOMAIN down_out' :
        /\ down_out'[i].to = q.addr
        /\ down_out'[i].packet.id = q.id
        /\ down_out'[i].packet.questions = << q.question >>
        /\ down_out'[i].packet.rescode \in {"NOERROR", "NXDOMAIN", "REFUSED"}

C12_RootLeaves ==
    [][ \A k \in DOMAIN queries :
           (queries[k].forword = 0 /\ Leaves(k))
           => \/ Answered(queries[k])
              \/ last'.op = "sweep"
              \/ (k \in DOMAIN queries' /\ curr_req_id' = k
                    /\ curr_req_id' # curr_req_id) ]_vars

(***************************************************************************)
(* C13: in every reachable state, following the parent links from any      *)
(* pending record leads, through records that are all in the table, to a   *)
(* record without parent.                                                  *)
(***************************************************************************)
RECURSIVE ReachesRoot(_, _, _)
ReachesRoot(qs, id, fuel) ==
    IF fuel = 0 \/ id \notin DOMAIN qs
    THEN FALSE
    ELSE IF qs[id].forword = 0
    THEN TRUE
    ELSE ReachesRoot(qs, qs[id].forword, fuel - 1)

C13_ReachableFromRoot ==
    \A k \in DOMAIN queries :
        ReachesRoot(queries, k, Cardinality(DOMAIN queries))

(***************************************************************************)
(* C14: upstream id 0 is never allocated: no call of next_req_id returns 0 *)
(* and no pending record is keyed by 0.                                    *)
(***************************************************************************)
C14_IdZeroNeverAllocated ==
    /\ 0 \notin DOMAIN queries
    /\ \A i \in DOMAIN up_out : up_out[i].packet.id # 0

(***************************************************************************)
(* C15: an upstream id is the counter's value after a wrapping 16-bit      *)
(* increment, and the record it is allocated for is stored under it; when  *)
(* that id already keys a pending record, the new record replaces the old  *)
(* one, the table does not grow, and the old record is in the table no     *)
(* more, so that a later reply with that id finds the new record only:     *)
(* every response a reply causes is built from a record of the table.      *)
(***************************************************************************)
Allocates == curr_req_id' # curr_req_id

NewRecord ==
    IF last'.op = "server_recv" THEN last'.query[1] ELSE ChildOf(last'.packet)

C15_IdAllocation ==
    [][ /\ Allocates
           => /\ curr_req_id' = (curr_req_id + 1) % 65536
              /\ curr_req_id' \in DOMAIN queries'
              /\ queries'[curr_req_id'] = NewRecord
              /\ Len(up_out') = 1
              /\ up_out'[1].packet.id = curr_req_id'
        /\ (Allocates /\ curr_req_id' \in DOMAIN queries)
           => /\ Cardinality(DOMAIN queries') = Cardinality(DOMAIN queries)
              /\ \A k \in DOMAIN queries' :
                    queries'[k] # queries[curr_req_id']
        /\ IsClientRecv
           => \A i \in DOMAIN down_out' :
                 \E k \in DOMAIN queries :
                    /\ down_out'[i].to = queries[k].addr
                    /\ down_out'[i].packet.id = queries[k].id ]_vars

\* The record of OldQuery was replaced under id 7 by a query of Client2, and
\* the answer with id 7 went to Client2.
C15_Witness ==
    /\ last.op = "client_recv"
    /\ last.packet.id = 7
    /\ Final(last.packet)
    /\ OldQuery \in requests
    /\ curr_req_id = 7
    /\ Len(down_out) = 1
    /\ down_out[1].to = Client2
    /\ down_out[1].packet.id = 43981
    /\ queries = << >>

(***************************************************************************)
(* C16: a pending record whose expiry is in the past is out of the table   *)
(* within CLEAR_QUERIES_INTERVAL seconds of becoming stale (the first      *)
(* second after its expiry), whether or not a datagram arrives.            *)
(***************************************************************************)
C16_StaleRemoved ==
    \A k \in DOMAIN queries :
        now <= queries[k].expire + 1 + CLEAR_QUERIES_INTERVAL

(***************************************************************************)
(* C17: a sweep at time now removes exactly the records whose expiry is    *)
(* before now, keeps every other record unchanged under its id and sends   *)
(* nothing; a record's expiry is its creation time + QUERY_TIMEOUT and a   *)
(* re-insertion does not change it.                                        *)
(***************************************************************************)
IsSweep == woken /\ ~woken' /\ last'.op = "sweep"

C17_Sweep ==
    [][ /\ IsSweep
           => /\ DOMAIN queries' =
                    { k \in DOMAIN queries : queries[k].expire >= now }
              /\ \A k \in DOMAIN queries' : queries'[k] = queries[k]
              /\ down_out' = << >>
              /\ up_out' = << >>
        /\ Allocates
           => queries'[curr_req_id'].expire = now + QUERY_TIMEOUT
        /\ IsClientRecv
           => \A k \in (DOMAIN queries) \cap (DOMAIN queries') :
                 (Allocates => k # curr_req_id')
                 => queries'[k].expire = queries[k].expire ]_vars

\* A sweep has removed the record of OldQuery (expiry before now) and kept a
\* record whose expiry is now.
C17_Witness ==
    /\ last.op = "sweep"
    /\ OldQuery \in requests
    /\ OldQuery.expire < now
    /\ DOMAIN queries = {8}
    /\ queries[8].expire = now

(***************************************************************************)
(* Dynamic updates.  A step of dyn_dns is told by last; Digest is the      *)
(* digest a packet of five tokens must carry, EffectiveIp the address it   *)
(* asks to bind.                                                           *)
(***************************************************************************)
IsDynRecv == nd' = nd + 1 /\ last'.op = "dyn_dns"

Digest(t) == Md5Hex(t[3] \o t[4] \o t[5] \o key)

EffectiveIp(d) == IF d.tokens[5] = "0.0.0.0" THEN d.from.ip ELSE d.tokens[5]

ErrorReply(d) == << [to |-> d.from, text |-> "error"] >>

(***************************************************************************)
(* C18: a dynamic-update packet whose digest token differs from the md5 of *)
(* id ++ host ++ ip ++ secret is answered "error" and leaves the host      *)
(* table unchanged, whatever its id, host and ip tokens are.               *)
(***************************************************************************)
C18_DyndnsDigest ==
    [][ (/\ IsDynRecv
         /\ Len(last'.datagram.tokens) >= 5
         /\ last'.datagram.tokens[2] # Digest(last'.datagram.tokens))
        => /\ down_out' = ErrorReply(last'.datagram)
           /\ hosts' = hosts ]_vars

\* A packet that is in the time window, asks for a new binding and carries
\* a wrong digest was answered "error".
C18_Witness ==
    /\ last.op = "dyn_dns"
    /\ Len(last.datagram.tokens) >= 5
    /\ last.datagram.tokens[2] # Digest(last.datagram.tokens)
    /\ last.datagram.tokens[3] = "1000"
    /\ last.datagram.tokens[4] = "home.lan"
    /\ last.datagram.tokens[5] = "192.0.2.55"
    /\ down_out = ErrorReply(last.datagram)
    /\ <<"home", "lan">> \notin DOMAIN hosts

\* The id tokens that are decimal numerals; TooBigId denotes 2^64.
DecimalTokens == (DOMAIN ParseU64) \cup {TooBigId}

\* delta - 600 <= id <= delta + 600, with delta = now - C_2023_01_01.  The
\* numeral of 2^64 is above every window.
InWindow(id) ==
    /\ id \in DOMAIN ParseU64
    /\ (now - C_2023_01_01) - C_DYNDNS_TIME_RANGE <= ParseU64[id]
    /\ ParseU64[id] <= (now - C_2023_01_01) + C_DYNDNS_TIME_RANGE

WellSigned(d) ==
    /\ Len(d.tokens) >= C_DYNDNS_PARAM_COUNT
    /\ d.tokens[2] = Digest(d.tokens)

Applied(d) ==
    \/ hosts' # hosts
    \/ /\ down_out' # << >>
       /\ down_out' # ErrorReply(d)

(***************************************************************************)
(* C19: a dynamic-update packet with a correct digest is applied only if   *)
(* delta - 600 <= id <= delta + 600, both bounds inclusive; a packet whose *)
(* id is a number outside that window is answered "error" and leaves the   *)
(* host table unchanged.                                                   *)
(***************************************************************************)
C19_ReplayWindow ==
    [][ (IsDynRecv /\ WellSigned(last'.datagram))
        => /\ Applied(last'.datagram) => InWindow(last'.datagram.tokens[3])
           /\ (/\ last'.datagram.tokens[3] \in DecimalTokens
               /\ ~InWindow(last'.datagram.tokens[3]))
              => /\ down_out' = ErrorReply(last'.datagram)
                 /\ hosts' = hosts ]_vars

Accepted(d) == WellSigned(d) /\ InWindow(d.tokens[3])

Binds(d) ==
    /\ hosts' = (NameOf[d.tokens[4]] :> EffectiveIp(d)) @@ hosts
    /\ down_out' = << [to |-> d.from,
                       text |-> d.tokens[4] \o " " \o EffectiveIp(d)] >>

(***************************************************************************)
(* C20, as stated: an accepted dynamic update (token count, digest and     *)
(* time window valid) binds host to the effective IP, the source address   *)
(* for the ip token "0.0.0.0" and the ip token otherwise, overwriting any  *)
(* previous binding of host and leaving every other binding unchanged, and *)
(* replies "{host} {effective_ip}".                                        *)
(***************************************************************************)
C20_Original ==
    [][ (IsDynRecv /\ Accepted(last'.datagram)) => Binds(last'.datagram) ]_vars

(***************************************************************************)
(* C20, amended: the same, for an accepted dynamic update whose effective  *)
(* IP is an IPv4 literal.                                                  *)
(***************************************************************************)
C20_Amended ==
    [][ (/\ IsDynRecv
         /\ Accepted(last'.datagram)
         /\ ParseIpv4(EffectiveIp(last'.datagram)) # None)
        => Binds(last'.datagram) ]_vars

\* An accepted update with the ip token "0.0.0.0" replaced the static
\* binding of example.local by the sender's address.
C20_Witness ==
    /\ last.op = "dyn_dns"
    /\ WellSigned(last.datagram)
    /\ last.datagram.tokens[4] = "example.local"
    /\ last.datagram.tokens[5] = "0.0.0.0"
    /\ hosts = (ExampleLocal :> Client1.ip)
    /\ LocalIp # Client1.ip
    /\ down_out = << [to |-> Client1, text |-> "example.local 203.0.113.7"] >>

\* A step of server_recv on a datagram of text.
IsTextRecv == nd' = nd + 1 /\ last'.op \in {"dyn_dns", "from_buffer"}

(***************************************************************************)
(* C21, as stated: a downstream datagram is taken as a dynamic update if   *)
(* and only if it is at least 51 bytes long and starts with "kdns"; every  *)
(* other datagram goes to DNS parsing.                                     *)
(***************************************************************************)
C21_Original ==
    [][ IsTextRecv
        => /\ last'.op = "dyn_dns"
              <=> (last'.datagram.len >= 51 /\ last'.datagram.tokens[1] = "kdns")
           /\ last'.op = "from_buffer"
              <=> ~(last'.datagram.len >= 51 /\ last'.datagram.tokens[1] = "kdns")
       ]_vars

(***************************************************************************)
(* C21, amended: the same with the length C_DYNDNS_MIN_LEN = 49.           *)
(***************************************************************************)
C21_Amended ==
    [][ IsTextRecv
        => /\ last'.op = "dyn_dns"
              <=> (last'.datagram.len >= 49 /\ last'.datagram.tokens[1] = "kdns")
           /\ last'.op = "from_buffer"
              <=> ~(last'.datagram.len >= 49 /\ last'.datagram.tokens[1] = "kdns")
       ]_vars

\* A datagram of 49 bytes that starts with the magic was answered as a
\* dynamic update.
C21_Witness ==
    /\ last.op = "dyn_dns"
    /\ last.datagram.len = 49
    /\ last.datagram.tokens[1] = "kdns"
    /\ down_out = ErrorReply(last.datagram)

(***************************************************************************)
(* C22: every datagram taken as a dynamic update gets exactly one reply,   *)
(* the text "error" or "{host} {ip}"; too few tokens, a wrong digest, an   *)
(* id outside the window, an id that is no decimal number and an effective *)
(* IP that is no IPv4 literal are all answered "error".                    *)
(***************************************************************************)
C22_OneReply ==
    [][ IsDynRecv
        => /\ Len(down_out') = 1
           /\ down_out'[1].to = last'.datagram.from
           /\ IF /\ Accepted(last'.datagram)
                 /\ ParseIpv4(EffectiveIp(last'.datagram)) # None
              THEN down_out'[1].text =
                     last'.datagram.tokens[4] \o " " \o EffectiveIp(last'.datagram)
              ELSE down_out'[1].text = "error" ]_vars

\* The handler before this step applied a dynamic update: it answered its
\* datagram with the host and the effective IP.
UpdateApplied ==
    /\ last.op = "dyn_dns"
    /\ Len(last.datagram.tokens) >= C_DYNDNS_PARAM_COUNT
    /\ down_out = << [to |-> last.datagram.from,
                      text |-> last.datagram.tokens[4] \o " "
                                 \o EffectiveIp(last.datagram)] >>

(***************************************************************************)
(* C23: after a dynamic update for host h is accepted with effective IP a, *)
(* a client A query for h is answered locally with NOERROR and the address *)
(* a, also for a host token written with upper-case letters.  Stated for   *)
(* the query that follows the update with no handler in between.           *)
(***************************************************************************)
C23_UpdateThenLookup ==
    [][ (/\ UpdateApplied
         /\ IsServerRecv
         /\ last'.query # None
         /\ last'.query[1].question
              = DnsQuestion(to_lowercase(NameOf[last.datagram.tokens[4]]), "A"))
        => /\ up_out' = << >>
           /\ Len(down_out') = 1
           /\ down_out'[1].to = last'.query[1].addr
           /\ down_out'[1].packet.rescode = "NOERROR"
           /\ down_out'[1].packet.answers
                = << RecA(last'.query[1].question.name,
                          EffectiveIp(last.datagram), ttl) >> ]_vars

(***************************************************************************)
(* BytePacketBuffer.  A byte is a number in 0 .. 255; buf is the sequence  *)
(* of the bytes below self.len, the byte at offset i being buf[i + 1].     *)
(* check_range fails for every offset at or past self.len.                 *)
(***************************************************************************)
check_range(buf, pos) == pos < Len(buf)

\* String::from_utf8_lossy(..).to_lowercase() on one byte: an ASCII capital
\* becomes the small letter, a byte that is no UTF-8 becomes U+FFFD.
lossy_lowercase(b) ==
    IF b >= 128 THEN << 239, 191, 189 >>
    ELSE IF b >= 65 /\ b <= 90 THEN << b + 32 >>
    ELSE << b >>

RECURSIVE lossy_lowercase_all(_)
lossy_lowercase_all(bytes) ==
    IF bytes = << >> THEN << >>
    ELSE lossy_lowercase(Head(bytes)) \o lossy_lowercase_all(Tail(bytes))

Dot == 46

(***************************************************************************)
(* read_qname, one iteration of its loop per step.  The frame holds        *)
(* self.pos and the locals pos, jumped, first, jumps_performed and outstr. *)
(***************************************************************************)
ReadFrame(buf, start) ==
    [op |-> "read_qname", buf |-> buf, self_pos |-> start, pos |-> start,
     jumped |-> FALSE, first |-> TRUE, jumps_performed |-> 0,
     outstr |-> << >>, status |-> "loop", iterations |-> 0]

Fail(f, msg) == [f EXCEPT !.status = msg]

read_qname_step(f) ==
    LET g == [f EXCEPT !.iterations = @ + 1]
    IN
    IF g.jumps_performed > MAX_JUMPS
    THEN Fail(g, "Limit of jumps exceeded")
    ELSE IF ~check_range(g.buf, g.pos)
    THEN Fail(g, "End of buffer")
    ELSE
    LET len == g.buf[g.pos + 1]
    IN  IF len >= 192
        THEN \* a jump: the first one moves self.pos past the pointer
             LET h == IF g.jumped THEN g ELSE [g EXCEPT !.self_pos = g.pos + 2]
             IN  IF ~check_range(h.buf, h.pos + 1)
                 THEN Fail(h, "End of buffer")
                 ELSE [h EXCEPT !.pos = (len - 192) * 256 + h.buf[h.pos + 2],
                                !.jumped = TRUE,
                                !.jumps_performed = @ + 1]
        ELSE IF len = 0
        THEN [g EXCEPT !.pos = g.pos + 1,
                       !.self_pos = IF g.jumped THEN @ ELSE g.pos + 1,
                       !.status = "ok"]
        ELSE LET h == [g EXCEPT !.pos = g.pos + 1,
                                !.first = FALSE,
                                !.outstr = IF g.first THEN @ ELSE @ \o << Dot >>]
             IN  IF ~check_range(h.buf, h.pos + len - 1)
                 THEN Fail(h, "End of buffer")
                 ELSE [h EXCEPT
                         !.outstr = @ \o lossy_lowercase_all(
                                           SubSeq(h.buf, h.pos + 1, h.pos + len)),
                         !.pos = h.pos + len]

ReadStep ==
    /\ frame.op = "read_qname"
    /\ frame.status = "loop"
    /\ frame' = read_qname_step(frame)
    /\ UNCHANGED server

(***************************************************************************)
(* SpecRead: read_qname on every datagram of ReadLen bytes over a small    *)
(* set of bytes: the terminator, lengths, the pointer byte 0xC0, whose     *)
(* second byte is one of the others, and letters.                          *)
(***************************************************************************)
ReadBytes == {0, 1, 2, 3, 192, 97, 66}

RECURSIVE Buffers(_)
Buffers(n) ==
    IF n = 0 THEN { << >> }
    ELSE { << b >> \o t : b \in ReadBytes, t \in Buffers(n - 1) }

ReadStarts == {0, 2}

InitRead ==
    /\ InitServer([curr_req_id |-> 0, queries |-> << >>, requests |-> {},
                   chain |-> None], ParentDns)
    /\ \E buf \in Buffers(ReadLen), start \in ReadStarts :
          frame = ReadFrame(buf, start)

NextRead == ReadStep

SpecRead == InitRead /\ [][NextRead]_vars

(***************************************************************************)
(* C24: on a datagram whose compression pointers form a cycle read_qname   *)
(* ends with the jump-limit error after following at most MAX_JUMPS = 5    *)
(* pointers.                                                               *)
(***************************************************************************)
C24_JumpLimit ==
    frame.op = "read_qname" => frame.jumps_performed <= 5

(***************************************************************************)
(* write_qname.  A name is the sequence of its bytes, Dot between labels.  *)
(* A store into buf at an offset past the array is a panic.                *)
(***************************************************************************)
RECURSIVE split(_)
split(bytes) ==
    IF \A i \in DOMAIN bytes : bytes[i] # Dot
    THEN << bytes >>
    ELSE LET i == CHOOSE k \in DOMAIN bytes :
                     /\ bytes[k] = Dot
                     /\ \A j \in 1 .. k - 1 : bytes[j] # Dot
         IN  << SubSeq(bytes, 1, i - 1) >>
               \o split(SubSeq(bytes, i + 1, Len(bytes)))

\* self.buf[pos] = b; pos += 1
Store(w, b) ==
    IF w.status # "ok" THEN w
    ELSE IF w.pos >= BufSize THEN [w EXCEPT !.status = "panic"]
    ELSE [w EXCEPT !.buf[w.pos + 1] = b, !.pos = @ + 1]

\* Store, byte after byte: the bytes that have room are stored, and the
\* first one that has none is the panic.
StoreAll(w, bytes) ==
    IF w.status # "ok" THEN w
    ELSE [w EXCEPT
            !.buf = [i \in 1 .. BufSize |->
                        IF w.pos < i /\ i <= w.pos + Len(bytes)
                        THEN bytes[i - w.pos] ELSE w.buf[i]],
            !.pos = IF w.pos + Len(bytes) > BufSize THEN BufSize
                    ELSE w.pos + Len(bytes),
            !.status = IF w.pos + Len(bytes) > BufSize THEN "panic" ELSE "ok"]

RECURSIVE write_labels(_, _)
write_labels(w, labels) ==
    IF labels = << >> \/ w.status # "ok" THEN w
    ELSE IF Len(Head(labels)) > LabelLimit
    THEN [w EXCEPT !.status = "Single label exceeds 63 characters of length"]
    ELSE write_labels(StoreAll(Store(w, Len(Head(labels))), Head(labels)),
                      Tail(labels))

WriteFrame(buf, start, qname) ==
    [op |-> "write_qname", buf |-> buf, start |-> start, self_pos |-> start,
     qname |-> qname, status |-> "call"]

write_qname(f) ==
    IF ~check_range(f.buf, f.self_pos + Len(f.qname))
    THEN [f EXCEPT !.status = "End of buffer"]
    ELSE LET w == write_labels([buf |-> f.buf, pos |-> f.self_pos,
                                status |-> "ok"], split(f.qname))
             z == Store(w, 0)
         IN  IF z.status # "ok"
             THEN [f EXCEPT !.buf = z.buf, !.status = z.status]
             ELSE [f EXCEPT !.buf = z.buf, !.self_pos = z.pos, !.status = "ok"]

WriteCall ==
    /\ frame.op = "write_qname"
    /\ frame.status = "call"
    /\ frame' = write_qname(frame)
    /\ UNCHANGED server

(***************************************************************************)
(* SpecWrite: write_qname into a fresh buffer (512 zero bytes, len 512) at *)
(* several offsets, for names of one or two labels whose lengths lie on    *)
(* both sides of 52 and of 63, the empty name and a name with an empty     *)
(* label.                                                                  *)
(***************************************************************************)
FreshBuf == [i \in 1 .. BufSize |-> 0]

LabelLens == {1, 2, 52, 53, 63, 64}

\* A label of n bytes: "a", then "b" .. , small letters and digits.
LabelOf(n) == [i \in 1 .. n |-> IF i = 1 THEN 97 ELSE IF i % 2 = 0 THEN 98 ELSE 49]

WriteNames ==
    { LabelOf(n) : n \in LabelLens }
    \cup { LabelOf(n) \o << Dot >> \o LabelOf(m) : n, m \in LabelLens }
    \cup { << >>, << 97, Dot, Dot, 98 >> }

WriteStarts == {0, 12, 381, 445, 509, 510}


\* read_qname as a function: the frame at which the loop ends.
RECURSIVE read_qname(_)
read_qname(f) ==
    IF f.status # "loop" THEN f ELSE read_qname(read_qname_step(f))

\* After a write that succeeded, read_qname from the offset of the write.
ReadBack ==
    /\ frame.op = "write_qname"
    /\ frame.status = "ok"
    /\ frame' = [op |-> "read_back", written |-> frame,
                 read |-> read_qname(ReadFrame(frame.buf, frame.start))]
    /\ UNCHANGED server

InitWrite ==
    /\ InitServer([curr_req_id |-> 0, queries |-> << >>, requests |-> {},
                   chain |-> None], ParentDns)
    /\ \E qname \in WriteNames, start \in WriteStarts :
          frame = WriteFrame(FreshBuf, start, qname)

NextWrite == WriteCall \/ ReadBack

SpecWrite == InitWrite /\ [][NextWrite]_vars

\* The name and its terminator fit between the offset and the buffer's end.
Fits(f) == f.start + Len(f.qname) + 2 <= BufSize

LongestLabel(qname) ==
    CHOOSE n \in 0 .. Len(qname) :
        /\ \E i \in DOMAIN split(qname) : Len(split(qname)[i]) = n
        /\ \A i \in DOMAIN split(qname) : Len(split(qname)[i]) <= n

\* Per label its length byte and its bytes, then one zero byte.
RECURSIVE Encoded(_)
Encoded(labels) ==
    IF labels = << >> THEN << 0 >>
    ELSE << Len(Head(labels)) >> \o Head(labels) \o Encoded(Tail(labels))

(***************************************************************************)
(* C25: write_qname succeeds for every dotted name that fits in the buffer *)
(* and whose labels are at most 63 bytes long, emitting per label its      *)
(* length byte and its bytes and then one zero byte, and fails with the    *)
(* label-too-long error exactly when some label is longer than 63 bytes.   *)
(***************************************************************************)
C25_WriteQname ==
    (frame.op = "write_qname" /\ frame.status # "call" /\ Fits(frame))
    => /\ frame.status = "Single label exceeds 63 characters of length"
          <=> LongestLabel(frame.qname) > 63
       /\ LongestLabel(frame.qname) <= 63
          => /\ frame.status = "ok"
             /\ frame.self_pos = frame.start + Len(frame.qname) + 2
             /\ SubSeq(frame.buf, frame.start + 1, frame.self_pos)
                  = Encoded(split(frame.qname))

\* A lowercased dotted name of non-empty labels of at most 63 bytes.
ValidName(qname) ==
    /\ \A i \in DOMAIN split(qname) :
          Len(split(qname)[i]) >= 1 /\ Len(split(qname)[i]) <= 63
    /\ lossy_lowercase_all(qname) = qname

(***************************************************************************)
(* C26: every lowercased dotted name of non-empty labels of at most 63     *)
(* bytes that fits is written by write_qname at an offset p of a fresh     *)
(* buffer, and read_qname started at p then returns exactly that name and  *)
(* leaves the cursor where write_qname left it.                            *)
(***************************************************************************)
C26_NameRoundTrip ==
    /\ (/\ frame.op = "write_qname"
        /\ frame.status # "call"
        /\ Fits(frame)
        /\ ValidName(frame.qname))
       => frame.status = "ok"
    /\ (frame.op = "read_back" /\ ValidName(frame.written.qname))
       => /\ frame.read.status = "ok"
          /\ frame.read.outstr = frame.written.qname
          /\ frame.read.self_pos = frame.written.self_pos

(***************************************************************************)
(* HostsConfig.  data is the sequence of the bytes of the hosts file, the  *)
(* byte at offset i being data[i + 1].                                     *)
(***************************************************************************)
\* Mutant: a carriage return does not end a line.
is_newline_LfOnly(c) == c = 10

is_newline(c) == c \in {13, 10}

is_blank(c) == c \in {9, 32}

Hash == 35

\* The loop of next from offset pos in state status; m holds ip_begin,
\* ip_end, host_begin and host_end.  The result is the state at the exit of
\* the loop.
RECURSIVE scan(_, _, _, _)
scan(data, pos, status, m) ==
    LET exit == [pos |-> pos, status |-> status, m |-> m]
        c == data[pos + 1]
    IN
    IF pos >= Len(data) THEN exit
    ELSE CASE status = "Start" ->
                IF is_blank(c) \/ is_newline(c) THEN scan(data, pos + 1, "Start", m)
                ELSE IF c = Hash THEN scan(data, pos + 1, "Comment", m)
                ELSE scan(data, pos + 1, "Ip", [m EXCEPT !.ip_begin = pos])
           [] status = "Comment" ->
                IF is_newline(c) THEN scan(data, pos + 1, "Start", m)
                ELSE scan(data, pos + 1, "Comment", m)
           [] status = "Ip" ->
                IF is_blank(c)
                THEN scan(data, pos + 1, "IpEnd", [m EXCEPT !.ip_end = pos])
                ELSE IF is_newline(c) \/ c = Hash
                THEN [exit EXCEPT !.status = "FmtError"]
                ELSE scan(data, pos + 1, "Ip", m)
           [] status = "IpEnd" ->
                IF is_blank(c) THEN scan(data, pos + 1, "IpEnd", m)
                ELSE IF is_newline(c) \/ c = Hash
                THEN [exit EXCEPT !.status = "FmtError"]
                ELSE scan(data, pos + 1, "Host", [m EXCEPT !.host_begin = pos])
           [] status = "Host" ->
                IF is_blank(c)
                THEN scan(data, pos + 1, "HostEnd", [m EXCEPT !.host_end = pos])
                ELSE IF is_newline(c)
                THEN [exit EXCEPT !.status = "HostEnd", !.m.host_end = pos]
                ELSE IF c = Hash
                THEN scan(data, pos + 1, "LineComment",
                          [m EXCEPT !.host_end = pos])
                ELSE scan(data, pos + 1, "Host", m)
           [] status = "HostEnd" ->
                IF is_blank(c) THEN scan(data, pos + 1, "HostEnd", m)
                ELSE IF is_newline(c) THEN exit
                ELSE IF c = Hash THEN scan(data, pos + 1, "LineComment", m)
                ELSE [exit EXCEPT !.status = "FmtError"]
           [] status = "LineComment" ->
                IF is_newline(c) THEN exit
                ELSE scan(data, pos + 1, "LineComment", m)

\* Mutant: every carriage return and every line feed is a line break.
location_line_EveryByte(data, pos) ==
    LET max_pos == IF pos < Len(data) THEN pos ELSE Len(data)
    IN  1 + Cardinality({ i \in 0 .. max_pos - 1 : data[i + 1] \in {10, 13} })

location_line(data, pos) ==
    LET max_pos == IF pos < Len(data) THEN pos ELSE Len(data)
    IN  1 + Cardinality({ i \in 0 .. max_pos - 1 :
                            \/ data[i + 1] = 10
                            \/ /\ data[i + 1] = 13
                               /\ i + 1 < Len(data)
                               /\ data[i + 2] # 10 })

\* std::str::from_utf8(..).is_ok() on the byte sequence s.
RECURSIVE from_utf8(_)
from_utf8(s) ==
    IF s = << >> THEN TRUE
    ELSE LET b == s[1]
             n == Len(s)
             cont(c) == c \in 128 .. 191
         IN  IF b < 128 THEN from_utf8(Tail(s))
             ELSE IF b \in 194 .. 223
             THEN n >= 2 /\ cont(s[2]) /\ from_utf8(SubSeq(s, 3, n))
             ELSE IF b \in 224 .. 239
             THEN /\ n >= 3
                  /\ s[2] \in (IF b = 224 THEN 160 .. 191
                               ELSE IF b = 237 THEN 128 .. 159 ELSE 128 .. 191)
                  /\ cont(s[3])
                  /\ from_utf8(SubSeq(s, 4, n))
             ELSE IF b \in 240 .. 244
             THEN /\ n >= 4
                  /\ s[2] \in (IF b = 240 THEN 144 .. 191
                               ELSE IF b = 244 THEN 128 .. 143 ELSE 128 .. 191)
                  /\ cont(s[3])
                  /\ cont(s[4])
                  /\ from_utf8(SubSeq(s, 5, n))
             ELSE FALSE

NoneResult == [kind |-> "none"]
\* "hosts config format is not utf8"
NotUtf8Result == [kind |-> "not_utf8"]
ErrorResult(line) == [kind |-> "error", line |-> line]
PairResult(host, ip) == [kind |-> "pair", host |-> host, ip |-> ip]

\* HostsConfig::next: its result and self.pos after it.
next(data, self_pos) ==
    LET e == scan(data, self_pos, "Start",
                  [ip_begin |-> 0, ip_end |-> 0, host_begin |-> 0, host_end |-> 0])
        len == Len(data)
    IN  IF e.status \in {"Start", "Comment"}
        THEN [result |-> NoneResult, pos |-> self_pos]
        ELSE IF e.status \in {"Ip", "IpEnd", "FmtError"}
        THEN [result |-> ErrorResult(location_line(data,
                             IF e.pos = len THEN e.pos ELSE e.pos - 1)),
              pos |-> self_pos]
        ELSE LET host_end == IF e.status = "Host" THEN e.pos ELSE e.m.host_end
                 host == SubSeq(data, e.m.host_begin + 1, host_end)
                 ip == SubSeq(data, e.m.ip_begin + 1, e.m.ip_end)
             IN  [result |-> IF from_utf8(ip) /\ from_utf8(host)
                             THEN PairResult(host, ip)
                             ELSE NotUtf8Result,
                  pos |-> IF e.pos = len THEN e.pos ELSE e.pos + 1]

\* One call of next; results collects what the calls so far returned.  The
\* caller stops at None and at an error.
HostsNext ==
    /\ frame.op = "HostsConfig"
    /\ ~frame.done
    /\ LET r == next(frame.data, frame.pos)
       IN  frame' = [frame EXCEPT !.pos = r.pos,
                                  !.results = Append(@, r.result),
                                  !.done = r.result.kind # "pair"]
    /\ UNCHANGED server

(***************************************************************************)
(* SpecHosts: successive calls of next on every hosts data of at most      *)
(* HostsLen bytes over space, CR, LF, '#', 'a' and '1', and on three       *)
(* longer files with tabs, comments and all three line ends.               *)
(***************************************************************************)
HostsBytes == {32, 13, 10, Hash, 97, 49}

RECURSIVE HostsData(_)
HostsData(n) ==
    IF n = 0 THEN { << >> }
    ELSE HostsData(n - 1)
         \cup { << b >> \o t : b \in HostsBytes,
                              t \in { u \in HostsData(n - 1) : Len(u) = n - 1 } }

HostsFiles ==
    { \* "1 a\r\n\t#c\r 2 b\t#c\n3 c c"
      << 49, 32, 97, 13, 10, 9, 35, 99, 13, 32, 50, 32, 98, 9, 35, 99, 10, 51, 32, 99, 32, 99 >>,
      \* "#c\r\n\r1 a #c\n\n2\tb\r\n #c"
      << 35, 99, 13, 10, 13, 49, 32, 97, 32, 35, 99, 10, 10, 50, 9, 98, 13, 10, 32, 35, 99 >>,
      \* "1 a\n 2 b #c\r  #c\r\n3 c  \n 1 2 \n 3 4 5"
      << 49, 32, 97, 10, 32, 50, 32, 98, 32, 35, 99, 13, 32, 32, 35, 99, 13, 10, 51, 32, 99, 32, 32, 10, 32, 49, 32, 50, 32, 10, 32, 51, 32, 52, 32, 53 >> }

InitHosts ==
    /\ InitServer([curr_req_id |-> 0, queries |-> << >>, requests |-> {},
                   chain |-> None], ParentDns)
    /\ \E data \in HostsData(HostsLen) \cup HostsFiles :
          frame = [op |-> "HostsConfig", data |-> data, pos |-> 0,
                   results |-> << >>, done |-> FALSE]

NextHosts == HostsNext

SpecHosts == InitHosts /\ [][NextHosts]_vars

(***************************************************************************)
(* SpecCalls: up to MaxCalls calls of next on one HostsConfig, whatever    *)
(* the calls before returned.  The data are every sequence of at most      *)
(* CallsLen bytes over space, LF, 'a', '1' and the two bytes of U+00E9,    *)
(* and three longer files.  cursors[i] is self.pos before call i.          *)
(***************************************************************************)
CallsBytes == {32, 10, 97, 49, 195, 169}

RECURSIVE CallsData(_)
CallsData(n) ==
    IF n = 0 THEN { << >> }
    ELSE CallsData(n - 1)
         \cup { << b >> \o t : b \in CallsBytes,
                              t \in { u \in CallsData(n - 1) : Len(u) = n - 1 } }

CallsFiles ==
    { \* "1 \xC3\xA9\n2 b\n3\n4 d"
      << 49, 32, 195, 169, 10, 50, 32, 98, 10, 51, 10, 52, 32, 100 >>,
      \* "\xA9 a\n1 b\n"
      << 169, 32, 97, 10, 49, 32, 98, 10 >>,
      \* "1 a\xC3 #c\r\n2 b"
      << 49, 32, 97, 195, 32, 35, 99, 13, 10, 50, 32, 98 >> }

HostsCall ==
    /\ frame.op = "next"
    /\ Len(frame.results) < MaxCalls
    /\ LET r == next(frame.data, frame.pos)
       IN  frame' = [frame EXCEPT !.pos = r.pos,
                                  !.results = Append(@, r.result),
                                  !.cursors = Append(@, r.pos)]
    /\ UNCHANGED server

InitCalls ==
    /\ InitServer([curr_req_id |-> 0, queries |-> << >>, requests |-> {},
                   chain |-> None], ParentDns)
    /\ \E data \in CallsData(CallsLen) \cup CallsFiles :
          frame = [op |-> "next", data |-> data, pos |-> 0,
                   results |-> << >>, cursors |-> << 0 >>]

NextCalls == HostsCall

SpecCalls == InitCalls /\ [][NextCalls]_vars

(***************************************************************************)
(* The hosts format, read off the data without the lexer: a line break is  *)
(* a CR LF pair, a lone CR or a lone LF; a comment runs from '#' to the    *)
(* end of its line; a token is a maximal run of bytes that are neither     *)
(* blank, nor line ends, nor in a comment.  Indices are 1-based.           *)
(***************************************************************************)
LineBreakEnds(data, j) ==
    \/ data[j] = 10
    \/ data[j] = 13 /\ (j = Len(data) \/ data[j + 1] # 10)

LineOf(data, i) ==
    1 + Cardinality({ j \in 1 .. i - 1 : LineBreakEnds(data, j) })

InComment(data, i) ==
    \E j \in 1 .. i :
        data[j] = 35 /\ \A k \in j .. i : data[k] \notin {10, 13}

TokChar(data, i) ==
    data[i] \notin {9, 32, 10, 13} /\ ~InComment(data, i)

TokenStarts(data) ==
    { i \in DOMAIN data :
        TokChar(data, i) /\ (i = 1 \/ ~TokChar(data, i - 1)) }

TokenAt(data, i) ==
    SubSeq(data, i,
           CHOOSE e \in i .. Len(data) :
               /\ \A k \in i .. e : TokChar(data, k)
               /\ (e = Len(data) \/ ~TokChar(data, e + 1)))

RECURSIVE Sorted(_)
Sorted(S) ==
    IF S = {} THEN << >>
    ELSE LET m == CHOOSE x \in S : \A y \in S : x <= y
         IN  << m >> \o Sorted(S \ {m})

LineTokens(data, n) ==
    Sorted({ i \in TokenStarts(data) : LineOf(data, i) = n })

TokenLines(data) == { LineOf(data, i) : i \in TokenStarts(data) }

\* The lines that hold one token, or a token after the name.
BadLines(data) == { n \in TokenLines(data) : Len(LineTokens(data, n)) # 2 }

\* The pairs of the lines before the first bad line, in file order.
ExpectedPairs(data) ==
    LET good == Sorted({ n \in TokenLines(data) :
                            \A b \in BadLines(data) : n < b })
    IN  [k \in DOMAIN good |->
            PairResult(TokenAt(data, LineTokens(data, good[k])[2]),
                       TokenAt(data, LineTokens(data, good[k])[1]))]

Pairs(results) == SelectSeq(results, LAMBDA r : r.kind = "pair")

(***************************************************************************)
(* C27: successive calls of next return the (host, ip) pairs of the data   *)
(* one per call in file order, skipping blank lines, comment lines,        *)
(* leading and trailing blanks and '#'-comments, for any mix of LF, CR and *)
(* CR LF; when only blank or comment text remains, next returns None.      *)
(***************************************************************************)
C27_HostsPairs ==
    frame.op = "HostsConfig"
    => /\ Len(Pairs(frame.results)) <= Len(ExpectedPairs(frame.data))
       /\ Pairs(frame.results)
            = SubSeq(ExpectedPairs(frame.data), 1, Len(Pairs(frame.results)))
       /\ \A k \in DOMAIN frame.results :
             frame.results[k].kind # "pair" => k = Len(frame.results)
       /\ frame.done
          => /\ Pairs(frame.results) = ExpectedPairs(frame.data)
             /\ BadLines(frame.data) = {}
                => frame.results[Len(frame.results)] = NoneResult

\* Two pairs and then None, from a file with comments, a tab, blank lines
\* and all three line ends.
C27_Witness ==
    /\ frame.op = "HostsConfig"
    /\ frame.done
    /\ 9 \in { frame.data[i] : i \in DOMAIN frame.data }
    /\ \E i \in DOMAIN frame.data : frame.data[i] = 13 /\ ~LineBreakEnds(frame.data, i)
    /\ frame.results = << PairResult(<< 97 >>, << 49 >>),
                          PairResult(<< 98 >>, << 50 >>), NoneResult >>

(***************************************************************************)
(* C28: for a line that holds only one token, or a further token after the *)
(* name, next returns a format error and never a pair, and the error       *)
(* carries the 1-based number of that line, a CR LF pair, a lone CR and a  *)
(* lone LF each counting as one line break.                                *)
(***************************************************************************)
C28_HostsErrors ==
    frame.op = "HostsConfig"
    => /\ \A k \in DOMAIN frame.results :
             frame.results[k].kind = "error"
             => /\ BadLines(frame.data) # {}
                /\ frame.results[k].line \in BadLines(frame.data)
                /\ \A b \in BadLines(frame.data) : frame.results[k].line <= b
       /\ (frame.done /\ BadLines(frame.data) # {})
          => frame.results[Len(frame.results)].kind = "error"
       /\ Len(Pairs(frame.results)) <= Len(ExpectedPairs(frame.data))

\* Four pairs, then the error of line 6, whose name is followed by a token;
\* line 2 ends with a lone CR and line 3 with CR LF.
C28_Witness ==
    /\ frame.op = "HostsConfig"
    /\ frame.done
    /\ Len(frame.results) = 5
    /\ frame.results[5] = ErrorResult(6)
    /\ Len(LineTokens(frame.data, 6)) = 3
    /\ \E i \in DOMAIN frame.data : frame.data[i] = 13 /\ ~LineBreakEnds(frame.data, i)
    /\ \E i \in DOMAIN frame.data : frame.data[i] = 13 /\ LineBreakEnds(frame.data, i)

(***************************************************************************)
(* C29: for a downstream DNS packet that carries several questions, the    *)
(* query record handed to handle_query holds the first question of the     *)
(* packet; a packet with no question creates no record, sends no response  *)
(* and changes no state.                                                   *)
(***************************************************************************)
C29_FirstQuestion ==
    [][IsServerRecv
       => LET questions == last'.datagram.packet.questions
          IN  IF questions = << >>
              THEN /\ last'.query = None
                   /\ down_out' = << >>
                   /\ up_out' = << >>
                   /\ queries' = queries
                   /\ curr_req_id' = curr_req_id
                   /\ hosts' = hosts
              ELSE /\ last'.query # None
                   /\ last'.query[1].question = questions[1]]_vars

(***************************************************************************)
(* C30: an upstream reply whose header id keys no pending record is        *)
(* dropped silently: the pending table, the id counter and the host table  *)
(* are unchanged, no datagram is sent to any client or upstream and no     *)
(* error is reported; in particular a duplicate of a reply that already    *)
(* completed a chain has no effect.                                        *)
(***************************************************************************)
C30_UnknownIdDropped ==
    [][ (IsClientRecv /\ last'.packet.id \notin DOMAIN queries)
        => /\ queries' = queries
           /\ curr_req_id' = curr_req_id
           /\ hosts' = hosts
           /\ down_out' = << >>
           /\ up_out' = << >>
           /\ err' = "ok"
           /\ nsent' = nsent ]_vars

\* The final answer under id 7 has answered the client of the one pending
\* record, and the same datagram has come once more: the table is still
\* empty, the counter still at 7, and nothing was sent.
C30_Witness ==
    /\ last.op = "client_recv"
    /\ ~last.found
    /\ last.again
    /\ Final(last.packet)
    /\ last.packet.id = 7
    /\ requests = {OldQuery}
    /\ queries = << >>
    /\ curr_req_id = 7
    /\ down_out = << >>
    /\ up_out = << >>

EndsRefused(p) ==
    /\ p.id \in DOMAIN queries
    /\ ~Final(p)
    /\ p.rescode # "NXDOMAIN"
    /\ \/ queries[p.id].count > MAX_FORWARD_COUNT
       \/ /\ get_resolved_ns(p, queries[p.id].question.name) = None
          /\ get_unresolved_ns(p, queries[p.id].question.name) = None

C32_RefusedToClient ==
    [][ /\ (IsClientRecv /\ EndsRefused(last'.packet))
           => LET p == last'.packet
                  gone == ParentChain(queries, p.id, Cardinality(DOMAIN queries))
              IN  /\ DOMAIN queries' = (DOMAIN queries) \ gone
                  /\ OthersUnchanged(gone)
                  /\ up_out' = << >>
                  /\ Len(down_out') = 1
                  /\ down_out'[1].packet.rescode = "REFUSED"
                  /\ \E k \in gone :
                        /\ queries[k].forword = 0
                        /\ down_out'[1].to = queries[k].addr
                        /\ down_out'[1].packet.id = queries[k].id
        /\ \A i \in DOMAIN down_out' : down_out'[i].to # NoClient ]_vars

(***************************************************************************)
(* C33: DNS parsing is never attempted on a datagram that passed the magic *)
(* test of the dynamic update (length and leading "kdns"): whether the     *)
(* update is accepted, rejected with "error" or fails with an internal     *)
(* error, from_buffer is not called on the datagram, no query record is    *)
(* created, and no DNS response and no upstream request is sent.           *)
(***************************************************************************)
C33_NoDnsParse ==
    [][ IsDynRecv
        => /\ ~last'.parsed
           /\ queries' = queries
           /\ curr_req_id' = curr_req_id
           /\ requests' = requests
           /\ up_out' = << >>
           /\ \A i \in DOMAIN down_out' : "packet" \notin DOMAIN down_out'[i] ]_vars

(***************************************************************************)
(* C34: once the server has started, no error stops the event loop: after  *)
(* a parse failure, a send failure or a receive error run has not returned *)
(* and goes on to serve later datagrams; and an upstream send that fails   *)
(* leaves its pending record in the table.                                 *)
(***************************************************************************)
C34_LoopGoesOn ==
    [][ /\ last'.op # "returned"
        /\ (err' = "send_to failed" /\ up_out' # << >>)
           => \A i \in DOMAIN up_out' : up_out'[i].packet.id \in DOMAIN queries' ]_vars

(***************************************************************************)
(* remove_recursive_query, one iteration of its loop at a time.  table is  *)
(* the pending table at the call, queries the table as the loop has left   *)
(* it so far, status "loop" while the loop runs, then "some" (with the     *)
(* record returned in top) or "none".                                      *)
(***************************************************************************)
WalkFrame(table, id) ==
    [op |-> "remove_recursive_query", table |-> table, id |-> id,
     queries |-> table, tmp_id |-> id, status |-> "loop", top |-> None,
     iterations |-> 0]

\* Mutant: the record is looked up and left in the table.
remove_step_Get(f) ==
    IF f.tmp_id \in DOMAIN f.queries
    THEN LET x == f.queries[f.tmp_id]
         IN  IF x.forword > 0
             THEN [f EXCEPT !.tmp_id = x.forword,
                            !.iterations = f.iterations + 1]
             ELSE [f EXCEPT !.status = "some", !.top = Some(x),
                            !.iterations = f.iterations + 1]
    ELSE [f EXCEPT !.status = "none", !.iterations = f.iterations + 1]

remove_step(f) ==
    IF f.tmp_id \in DOMAIN f.queries
    THEN LET x == f.queries[f.tmp_id]
             qs == Remove(f.queries, f.tmp_id)
         IN  IF x.forword > 0
             THEN [f EXCEPT !.queries = qs, !.tmp_id = x.forword,
                            !.iterations = f.iterations + 1]
             ELSE [f EXCEPT !.queries = qs, !.status = "some", !.top = Some(x),
                            !.iterations = f.iterations + 1]
    ELSE [f EXCEPT !.status = "none", !.iterations = f.iterations + 1]

WalkStep ==
    /\ frame.op = "remove_recursive_query"
    /\ frame.status = "loop"
    /\ frame' = remove_step(frame)
    /\ UNCHANGED server

(***************************************************************************)
(* SpecWalk: remove_recursive_query on every table over the ids WalkIds,   *)
(* the record under each id with any parent link among WalkIds or none     *)
(* (0): chains, gaps, links to itself and cycles; id 0 may key a record.   *)
(***************************************************************************)
WalkIds == 0 .. 3

WalkRecord(k, parent) ==
    QueryData(k, NoClient, DnsQuestion(ExampleCom, "A"), parent,
              StartTime + QUERY_TIMEOUT, 0)

WalkTables ==
    UNION { { [k \in ks |-> WalkRecord(k, link[k])] : link \in [ks -> WalkIds] } :
            ks \in SUBSET WalkIds }

InitWalk ==
    /\ InitServer([curr_req_id |-> 0, queries |-> << >>, requests |-> {},
                   chain |-> None], ParentDns)
    /\ \E table \in WalkTables, id \in WalkIds : frame = WalkFrame(table, id)

NextWalk == WalkStep

SpecWalk == InitWalk /\ [][NextWalk]_vars

(***************************************************************************)
(* C35: remove_recursive_query(id) ends on every table, also when parent   *)
(* links form a cycle or point to their own record: each iteration removes *)
(* one record and follows its parent link, so there are at most as many    *)
(* iterations as records, and one more; it returns the first record it     *)
(* removed that has parent 0, or nothing as soon as an id on the path is   *)
(* missing, and then the records visited before the gap stay removed.      *)
(***************************************************************************)
C35_WalkUp ==
    frame.op = "remove_recursive_query"
    => LET table == frame.table
           gone == ParentChain(table, frame.id, Cardinality(DOMAIN table))
           removed == (DOMAIN table) \ (DOMAIN frame.queries)
       IN  /\ frame.iterations <= Cardinality(DOMAIN table) + 1
           /\ removed \subseteq gone
           /\ \A k \in DOMAIN frame.queries :
                 k \in DOMAIN table /\ frame.queries[k] = table[k]
           /\ frame.status = "loop"
              => /\ Cardinality(removed) = frame.iterations
                 /\ \A k \in removed : table[k].forword # 0
           /\ frame.status # "loop"
              => /\ removed = gone
                 /\ [queries |-> frame.queries, top |-> frame.top]
                       = remove_recursive_query(table, frame.id)
           /\ frame.status = "some"
              => /\ frame.top[1].forword = 0
                 /\ frame.top[1] \in { table[k] : k \in gone }
                 /\ \A k \in gone : table[k].forword = 0 => table[k] = frame.top[1]
                 /\ frame.iterations = Cardinality(gone)
           /\ frame.status = "none"
              => /\ \A k \in gone : table[k].forword # 0
                 /\ frame.iterations = Cardinality(gone) + 1

\* The walk from 1 on the cycle 1 -> 2 -> 3 -> 1 has removed the three
\* records and ended with nothing at its fourth iteration.
C35_Witness ==
    /\ frame.op = "remove_recursive_query"
    /\ frame.id = 1
    /\ DOMAIN frame.table = {1, 2, 3}
    /\ frame.table[1].forword = 2
    /\ frame.table[2].forword = 3
    /\ frame.table[3].forword = 1
    /\ frame.status = "none"
    /\ frame.queries = << >>
    /\ frame.iterations = 4

(***************************************************************************)
(* C36: the host table changes only through register_host, called by the   *)
(* static load at startup and by an accepted dynamic update: a step that   *)
(* changes it is an accepted update and binds the update's host to its     *)
(* address; client queries, upstream replies, rejected updates and sweeps  *)
(* leave it unchanged; and no step removes a key.                          *)
(***************************************************************************)
C36_HostsFrame ==
    [][ /\ DOMAIN hosts \subseteq DOMAIN hosts'
        /\ hosts' # hosts
           => /\ IsDynRecv
              /\ Accepted(last'.datagram)
              /\ ParseIpv4(EffectiveIp(last'.datagram)) # None
              /\ hosts' = (NameOf[last'.datagram.tokens[4]]
                             :> ParseIpv4(EffectiveIp(last'.datagram))[1]) @@ hosts
        /\ (IsDynRecv /\ ~Accepted(last'.datagram)) => hosts' = hosts
        /\ ~IsDynRecv => hosts' = hosts ]_vars

\* An accepted update has bound home.lan beside the name of the static
\* load, and the upstream reply handled after it has left both bindings.
C36_Witness ==
    /\ last.op = "client_recv"
    /\ DOMAIN hosts = {ExampleLocal, NameOf["home.lan"]}
    /\ nd = 2

(***************************************************************************)
(* C37: write_qname never indexes the buffer at or past its 512 bytes, for *)
(* every name and every cursor position: it returns the end-of-buffer      *)
(* error without having written, or every store it makes (length bytes,    *)
(* label bytes, the terminating zero) is at an index below 512.            *)
(***************************************************************************)
C37_WriteInBounds ==
    (frame.op = "write_qname" /\ frame.status # "call")
    => /\ frame.status # "panic"
       /\ frame.status = "End of buffer" => frame.buf = FreshBuf
       /\ frame.self_pos <= BufSize

(***************************************************************************)
(* C38: each client query datagram causes at most one DNS response to its  *)
(* client, whatever upstream replies arrive, duplicated, late or out of    *)
(* order: the record of a query leaves the pending table in the step that  *)
(* answers its client and is not in the table at any later time, and no    *)
(* query has its record under two ids at once.                             *)
(***************************************************************************)
SentTo(r) ==
    { i \in DOMAIN replied.log :
         replied.log[i] = [to |-> r.addr, id |-> r.id] }

RecordsOf(r) ==
    { k \in DOMAIN queries :
         /\ queries[k].forword = 0
         /\ queries[k].addr = r.addr
         /\ queries[k].id = r.id }

C38_OneResponse ==
    \A r \in requests :
        /\ Cardinality(SentTo(r)) <= 1
        /\ Cardinality(RecordsOf(r)) <= 1
        /\ SentTo(r) # {} => RecordsOf(r) = {}

\* Two client queries: one has been answered by an upstream reply and the
\* same reply has come once more; it still has its one response and no
\* record, while the record of the other query waits under its one id.
C38_Witness ==
    /\ replied.on
    /\ Cardinality(requests) = 2
    /\ last.op = "client_recv"
    /\ last.again
    /\ \E r \in requests : Cardinality(SentTo(r)) = 1 /\ RecordsOf(r) = {}
    /\ \E r \in requests : SentTo(r) = {} /\ Cardinality(RecordsOf(r)) = 1

(***************************************************************************)
(* C39: an upstream datagram is applied to a pending record only if it     *)
(* comes from the address the record's request was last sent to and        *)
(* carries the record's question; a datagram from any other sender whose   *)
(* id keys a record leaves the table as it is and causes no response and   *)
(* no upstream request.                                                    *)
(***************************************************************************)
C39_SenderChecked ==
    [][ (IsClientRecv /\ last'.found)
        => LET p == last'.packet
           IN  \/ /\ last'.from = replied.sent[p.id]
                  /\ p.questions = << queries[p.id].question >>
               \/ /\ queries' = queries
                  /\ curr_req_id' = curr_req_id
                  /\ down_out' = << >>
                  /\ up_out' = << >> ]_vars

(***************************************************************************)
(* C40: the cursor of HostsConfig never moves backwards and stays within   *)
(* the data; a call of next that returns a pair moves the cursor forwards, *)
(* to the end of the data or past the byte that ended the pair's line; a   *)
(* call that returns None or an error leaves the cursor where it was, and  *)
(* every call after it returns what it returned.                           *)
(***************************************************************************)
C40_CursorForward ==
    frame.op = "next"
    => \A i \in DOMAIN frame.results :
          LET r == frame.results[i]
              before == frame.cursors[i]
              after == frame.cursors[i + 1]
          IN  /\ before <= after
              /\ after <= Len(frame.data)
              /\ r.kind = "pair"
                 => /\ after > before
                    /\ \/ after = Len(frame.data)
                       \/ is_newline(frame.data[after])
              /\ r.kind # "pair"
                 => /\ after = before
                    /\ \A j \in DOMAIN frame.results :
                          j > i => frame.results[j] = r

====
